---- MODULE Spec2Model ----
(***************************************************************************)
(* FastAPI Bedrock Service: the POST /process request flow of              *)
(* server/main.py, the request models of server/models.py and the         *)
(* inference adapter of server/bedrock_client.py.                          *)
(*                                                                         *)
(* A Python str is modelled by its characters (one-character strings),  *)
(* so that strip(), split(), len(), startswith() and f-string             *)
(* concatenation are computed on the characters.  Enumerated literals     *)
(* that are only compared ("success", "validation_error", ...) are TLA+   *)
(* strings.                                                                *)
(***************************************************************************)
EXTENDS Integers, Sequences, FiniteSets, TLC

\* Number of client requests of one run.
MaxRequests == 1

\* models.py: Field(min_length=1, max_length=100) of task,
\* Field(min_length=1, max_length=10000) of content.
TaskMinLength == 1
TaskMaxLength == 100
ContentMinLength == 1
ContentMaxLength == 10000

\* fastapi.status codes used by main.py.
HTTP_200_OK == 200
HTTP_400_BAD_REQUEST == 400
HTTP_415_UNSUPPORTED_MEDIA_TYPE == 415
HTTP_422_UNPROCESSABLE_ENTITY == 422
HTTP_500_INTERNAL_SERVER_ERROR == 500
HTTP_503_SERVICE_UNAVAILABLE == 503

----------------------------------------------------------------------------
\* Python str operations.  A str is kept run-length encoded: a sequence of
\* runs [c, e], the run of the character c that ends at index e of the str;
\* adjacent runs have different characters, so that equal strings are
\* equal values.  "aab" is <<[c |-> "a", e |-> 2], [c |-> "b", e |-> 3]>>.

Whitespace == {" ", "\t", "\n"}

\* c * n
Rep(c, n) == IF n = 0 THEN <<>> ELSE <<[c |-> c, e |-> n]>>

\* len(s)
StrLen(s) == IF s = <<>> THEN 0 ELSE s[Len(s)].e

\* The index before the first character of run i.
RunStart(s, i) == IF i = 1 THEN 0 ELSE s[i - 1].e

\* The runs of s moved d characters to the right.
Shift(s, d) == [i \in 1..Len(s) |-> [c |-> s[i].c, e |-> s[i].e + d]]

\* a + b
Cat(a, b) ==
    IF a = <<>> THEN b
    ELSE IF b = <<>> THEN a
    ELSE IF a[Len(a)].c = b[1].c
    THEN SubSeq(a, 1, Len(a) - 1) \o Shift(b, StrLen(a))
    ELSE a \o Shift(b, StrLen(a))

\* The str with the characters chars[1], chars[2], ...
S(chars) ==
    LET ends == {i \in 1..Len(chars) :
                    i = Len(chars) \/ chars[i] # chars[i + 1]}
        end(k) == CHOOSE i \in ends :
                      Cardinality({j \in ends : j < i}) = k - 1
    IN [k \in 1..Cardinality(ends) |-> [c |-> chars[end(k)], e |-> end(k)]]

\* parts[1] + parts[2] + ...
RECURSIVE CatAll(_)
CatAll(parts) ==
    IF parts = <<>> THEN <<>> ELSE Cat(parts[1], CatAll(Tail(parts)))

\* s[:k]
Take(s, k) ==
    LET m == Cardinality({i \in 1..Len(s) : RunStart(s, i) < k})
    IN [i \in 1..m |->
           [c |-> s[i].c, e |-> IF s[i].e < k THEN s[i].e ELSE k]]

\* s[k:]
Drop(s, k) ==
    IF k <= 0 THEN s
    ELSE LET d == Cardinality({i \in 1..Len(s) : s[i].e <= k})
         IN [i \in 1..(Len(s) - d) |->
                [c |-> s[i + d].c, e |-> s[i + d].e - k]]

\* str.strip(): drop leading and trailing whitespace.
strip(s) ==
    LET idx == {i \in 1..Len(s) : s[i].c \notin Whitespace}
    IN IF idx = {} THEN <<>>
       ELSE LET lo == CHOOSE i \in idx : \A j \in idx : i <= j
                hi == CHOOSE i \in idx : \A j \in idx : i >= j
            IN Shift(SubSeq(s, lo, hi), 0 - RunStart(s, lo))

\* len(s.split()): number of maximal runs of non-whitespace characters.
WordCount(s) ==
    Cardinality({i \in 1..Len(s) :
        /\ s[i].c \notin Whitespace
        /\ (i = 1 \/ s[i - 1].c \in Whitespace)})

\* str.startswith(prefix)
startswith(s, prefix) ==
    /\ StrLen(prefix) <= StrLen(s)
    /\ Take(s, StrLen(prefix)) = prefix

\* str.endswith(suffix)
endswith(s, suffix) ==
    /\ StrLen(suffix) <= StrLen(s)
    /\ Drop(s, StrLen(s) - StrLen(suffix)) = suffix

\* x in s (substring test): an occurrence of x starts in a run of s of the
\* first character of x, and ends its first run where that run of s ends
\* unless x is a single run.
Contains(s, x) ==
    \/ x = <<>>
    \/ \E j \in 1..Len(s) :
          /\ s[j].c = x[1].c
          /\ s[j].e - RunStart(s, j) >= x[1].e
          /\ \/ Len(x) = 1
             \/ Take(Drop(s, s[j].e - x[1].e), StrLen(x)) = x

\* str(n) of an integer, as in f"HTTP {exc.status_code}".
Digits == <<"0", "1", "2", "3", "4", "5", "6", "7", "8", "9">>
RECURSIVE IntToStr(_)
IntToStr(n) ==
    IF n < 0 THEN Cat(Rep("-", 1), IntToStr(0 - n))
    ELSE IF n < 10 THEN Rep(Digits[n + 1], 1)
    ELSE Cat(IntToStr(n \div 10), Rep(Digits[(n % 10) + 1], 1))

\* sep.join(parts)
RECURSIVE Join(_, _)
Join(sep, parts) ==
    IF parts = <<>> THEN <<>>
    ELSE IF Len(parts) = 1 THEN parts[1]
    ELSE CatAll(<<parts[1], sep, Join(sep, Tail(parts))>>)

----------------------------------------------------------------------------
\* String literals of the source.

GTD_CLARIFICATION ==
    S(<<"g", "t", "d", "-", "c", "l", "a", "r", "i", "f", "i", "c", "a", "t",
      "i", "o", "n">>)
TemplateTask == S(<<"T", "a", "s", "k", ":", " ">>)
TemplateContent ==
    S(<<"\n", "C", "o", "n", "t", "e", "n", "t", " ", "t", "o", " ", "p", "r",
      "o", "c", "e", "s", "s", ":", " ">>)
TemplateTail ==
    S(<<"\n", "\n", "P", "l", "e", "a", "s", "e", " ", "p", "r", "o", "c", "e",
      "s", "s", " ", "t", "h", "e", " ", "a", "b", "o", "v", "e", " ", "c",
      "o", "n", "t", "e", "n", "t", " ", "a", "c", "c", "o", "r", "d", "i",
      "n", "g", " ", "t", "o", " ", "t", "h", "e", " ", "s", "p", "e", "c",
      "i", "f", "i", "e", "d", " ", "t", "a", "s", "k", ".">>)
APPLICATION_JSON ==
    S(<<"a", "p", "p", "l", "i", "c", "a", "t", "i", "o", "n", "/", "j", "s",
      "o", "n">>)
ContentTypeDetail ==
    S(<<"C", "o", "n", "t", "e", "n", "t", "-", "T", "y", "p", "e", " ", "m",
      "u", "s", "t", " ", "b", "e", " ", "a", "p", "p", "l", "i", "c", "a",
      "t", "i", "o", "n", "/", "j", "s", "o", "n">>)
AiServiceErrorPrefix ==
    S(<<"A", "I", " ", "s", "e", "r", "v", "i", "c", "e", " ", "e", "r", "r",
      "o", "r", ":", " ">>)
HttpPrefix == S(<<"H", "T", "T", "P", " ">>)
ErrorProcessingPrefix ==
    S(<<"E", "r", "r", "o", "r", " ", "p", "r", "o", "c", "e", "s", "s", "i",
      "n", "g", " ", "r", "e", "q", "u", "e", "s", "t", ":", " ">>)
ValidationFailedMessage ==
    S(<<"R", "e", "q", "u", "e", "s", "t", " ", "v", "a", "l", "i", "d", "a",
      "t", "i", "o", "n", " ", "f", "a", "i", "l", "e", "d">>)
WhitespaceOnlyMessage ==
    S(<<"F", "i", "e", "l", "d", " ", "c", "a", "n", "n", "o", "t", " ", "b",
      "e", " ", "e", "m", "p", "t", "y", " ", "o", "r", " ", "w", "h", "i",
      "t", "e", "s", "p", "a", "c", "e", " ", "o", "n", "l", "y">>)
DefaultModelId ==
    S(<<"u", "s", ".", "a", "n", "t", "h", "r", "o", "p", "i", "c", ".", "c",
      "l", "a", "u", "d", "e", "-", "s", "o", "n", "n", "e", "t", "-", "4",
      "-", "2", "0", "2", "5", "0", "5", "1", "4", "-", "v", "1", ":", "0">>)
JoinSep == S(<<";", " ">>)
FieldSep == S(<<":", " ">>)
Dot == S(<<".">>)

\* Texts of the validation library's errors and the error locations.
LocBody == S(<<"b", "o", "d", "y">>)
LocTask == S(<<"t", "a", "s", "k">>)
LocContent == S(<<"c", "o", "n", "t", "e", "n", "t">>)
ValueErrorPrefix ==
    S(<<"V", "a", "l", "u", "e", " ", "e", "r", "r", "o", "r", ",", " ">>)
MsgMissing ==
    S(<<"F", "i", "e", "l", "d", " ", "r", "e", "q", "u", "i", "r", "e", "d">>)
MsgStringType ==
    S(<<"I", "n", "p", "u", "t", " ", "s", "h", "o", "u", "l", "d", " ", "b",
      "e", " ", "a", " ", "v", "a", "l", "i", "d", " ", "s", "t", "r", "i",
      "n", "g">>)
MsgTooShortHead ==
    S(<<"S", "t", "r", "i", "n", "g", " ", "s", "h", "o", "u", "l", "d", " ",
      "h", "a", "v", "e", " ", "a", "t", " ", "l", "e", "a", "s", "t", " ">>)
MsgTooLongHead ==
    S(<<"S", "t", "r", "i", "n", "g", " ", "s", "h", "o", "u", "l", "d", " ",
      "h", "a", "v", "e", " ", "a", "t", " ", "m", "o", "s", "t", " ">>)
MsgCharacter == S(<<" ", "c", "h", "a", "r", "a", "c", "t", "e", "r">>)
MsgCharacters == S(<<" ", "c", "h", "a", "r", "a", "c", "t", "e", "r", "s">>)
MsgModelType ==
    S(<<"I", "n", "p", "u", "t", " ", "s", "h", "o", "u", "l", "d", " ", "b",
      "e", " ", "a", " ", "v", "a", "l", "i", "d", " ", "d", "i", "c", "t",
      "i", "o", "n", "a", "r", "y", " ", "o", "r", " ", "o", "b", "j", "e",
      "c", "t", " ", "t", "o", " ", "e", "x", "t", "r", "a", "c", "t", " ",
      "f", "i", "e", "l", "d", "s", " ", "f", "r", "o", "m">>)

\* Texts of the exceptions raised while reading the provider's response,
\* and of two provider errors.
ErrKeyOutput == S(<<"'", "o", "u", "t", "p", "u", "t", "'">>)
ErrKeyMessage == S(<<"'", "m", "e", "s", "s", "a", "g", "e", "'">>)
ErrKeyContent == S(<<"'", "c", "o", "n", "t", "e", "n", "t", "'">>)
ErrKeyText == S(<<"'", "t", "e", "x", "t", "'">>)
ErrIndex ==
    S(<<"l", "i", "s", "t", " ", "i", "n", "d", "e", "x", " ", "o", "u", "t",
      " ", "o", "f", " ", "r", "a", "n", "g", "e">>)
ErrNoneType ==
    S(<<"'", "N", "o", "n", "e", "T", "y", "p", "e", "'", " ", "o", "b", "j",
      "e", "c", "t", " ", "i", "s", " ", "n", "o", "t", " ", "s", "u", "b",
      "s", "c", "r", "i", "p", "t", "a", "b", "l", "e">>)
ErrThrottling ==
    S(<<"A", "n", " ", "e", "r", "r", "o", "r", " ", "o", "c", "c", "u", "r",
      "r", "e", "d", " ", "(", "T", "h", "r", "o", "t", "t", "l", "i", "n",
      "g", "E", "x", "c", "e", "p", "t", "i", "o", "n", ")", " ", "w", "h",
      "e", "n", " ", "c", "a", "l", "l", "i", "n", "g", " ", "t", "h", "e",
      " ", "C", "o", "n", "v", "e", "r", "s", "e", " ", "o", "p", "e", "r",
      "a", "t", "i", "o", "n", ":", " ", "R", "a", "t", "e", " ", "e", "x",
      "c", "e", "e", "d", "e", "d">>)
ErrUnspecified ==
    S(<<"A", "n", " ", "u", "n", "s", "p", "e", "c", "i", "f", "i", "e", "d",
      " ", "e", "r", "r", "o", "r", " ", "o", "c", "c", "u", "r", "r", "e",
      "d">>)

\* The result of evaluating a Python call: a returned value or a raised
\* exception.  An exception carries its class and str(exc).
Return(v) == [kind |-> "return", value |-> v]
Raise(e) == [kind |-> "raise", exc |-> e]
Exc(type, text) == [type |-> type, text |-> text]

----------------------------------------------------------------------------
\* config.py: Settings, and bedrock_client.py: BedrockClient.__init__.

ModelM1 == S(<<"m", "1">>)
MsgGreaterEqual ==
    S(<<"I", "n", "p", "u", "t", " ", "s", "h", "o", "u", "l", "d", " ", "b",
      "e", " ", "g", "r", "e", "a", "t", "e", "r", " ", "t", "h", "a", "n",
      " ", "o", "r", " ", "e", "q", "u", "a", "l", " ", "t", "o", " ", "0">>)

\* The values BEDROCK_MODEL_ID can take at startup: unset (the default of
\* the Settings class) or set in the environment.
ModelIds == {DefaultModelId, ModelM1}

TokenA == S(<<"t", "o", "k", "-", "A">>)
TokenB ==
    S(<<" ", " ", "b", "e", "d", "r", "o", "c", "k", "-", "k", "e", "y",
      "-", "B", "\n">>)

\* The values AWS_BEARER_TOKEN_BEDROCK has at a startup that succeeds.
Tokens == {TokenA, TokenB}

\* The names of environment variables are tuples of characters; os.environ
\* is a function from names to str values.

AWS_BEARER_TOKEN_BEDROCK ==
    <<"A", "W", "S", "_", "B", "E", "A", "R", "E", "R", "_", "T", "O",
      "K", "E", "N", "_", "B", "E", "D", "R", "O", "C", "K">>
AWS_REGION == <<"A", "W", "S", "_", "R", "E", "G", "I", "O", "N">>
BEDROCK_MODEL_ID ==
    <<"B", "E", "D", "R", "O", "C", "K", "_", "M", "O", "D", "E", "L",
      "_", "I", "D">>
LOG_LEVEL == <<"L", "O", "G", "_", "L", "E", "V", "E", "L">>
HOST == <<"H", "O", "S", "T">>
PORT == <<"P", "O", "R", "T">>
PortMixedCase == <<"P", "o", "r", "t">>

\* The fields of Settings, by name.
field_aws_region == <<"a", "w", "s", "_", "r", "e", "g", "i", "o", "n">>
field_aws_bearer_token_bedrock ==
    <<"a", "w", "s", "_", "b", "e", "a", "r", "e", "r", "_", "t", "o",
      "k", "e", "n", "_", "b", "e", "d", "r", "o", "c", "k">>
field_bedrock_model_id ==
    <<"b", "e", "d", "r", "o", "c", "k", "_", "m", "o", "d", "e", "l",
      "_", "i", "d">>
field_log_level == <<"l", "o", "g", "_", "l", "e", "v", "e", "l">>
field_host == <<"h", "o", "s", "t">>
field_port == <<"p", "o", "r", "t">>

\* The defaults of the fields and the values the variables are set to.
DefaultRegion == S(<<"u", "s", "-", "e", "a", "s", "t", "-", "1">>)
DefaultLogLevel == S(<<"I", "N", "F", "O">>)
DefaultHost == S(<<"l", "o", "c", "a", "l", "h", "o", "s", "t">>)
RegionEuWest1 == S(<<"e", "u", "-", "w", "e", "s", "t", "-", "1">>)
LogLevelDebug == S(<<"D", "E", "B", "U", "G">>)
Host127 == S(<<"1", "2", "7", ".", "0", ".", "0", ".", "1">>)
Port9000 == S(<<"9", "0", "0", "0">>)
Port3000 == S(<<"3", "0", "0", "0">>)
PortNotANumber ==
    S(<<"n", "o", "t", "-", "a", "-", "n", "u", "m", "b", "e", "r">>)
TokenSpaces == S(<<" ", " ", " ">>)
MsgTokenRequired ==
    S(<<"A", "W", "S", "_", "B", "E", "A", "R", "E", "R", "_", "T", "O",
      "K", "E", "N", "_", "B", "E", "D", "R", "O", "C", "K", " ", "i",
      "s", " ", "r", "e", "q", "u", "i", "r", "e", "d", " ", "a", "n",
      "d", " ", "c", "a", "n", "n", "o", "t", " ", "b", "e", " ", "e",
      "m", "p", "t", "y">>)
MsgIntParsing ==
    S(<<"I", "n", "p", "u", "t", " ", "s", "h", "o", "u", "l", "d", " ",
      "b", "e", " ", "a", " ", "v", "a", "l", "i", "d", " ", "i", "n",
      "t", "e", "g", "e", "r", ",", " ", "u", "n", "a", "b", "l", "e",
      " ", "t", "o", " ", "p", "a", "r", "s", "e", " ", "s", "t", "r",
      "i", "n", "g", " ", "a", "s", " ", "a", "n", " ", "i", "n", "t",
      "e", "g", "e", "r">>)
DefaultPort == 8000

\* str.lower() of a name.
AsciiUppercase ==
    <<"A", "B", "C", "D", "E", "F", "G", "H", "I", "J", "K", "L", "M", "N",
      "O", "P", "Q", "R", "S", "T", "U", "V", "W", "X", "Y", "Z">>
AsciiLowercase ==
    <<"a", "b", "c", "d", "e", "f", "g", "h", "i", "j", "k", "l", "m", "n",
      "o", "p", "q", "r", "s", "t", "u", "v", "w", "x", "y", "z">>
lower(name) ==
    [i \in 1..Len(name) |->
        IF \E k \in 1..26 : AsciiUppercase[k] = name[i]
        THEN AsciiLowercase[CHOOSE k \in 1..26 : AsciiUppercase[k] = name[i]]
        ELSE name[i]]

\* case_sensitive=False: the value of the variable whose name is the
\* field's name in any letter case, if there is one.
EnvValue(env, field) ==
    LET Found(names) ==
            IF names = {} THEN [present |-> FALSE, val |-> <<>>]
            ELSE [present |-> TRUE, val |-> env[CHOOSE n \in names : TRUE]]
    IN Found({n \in DOMAIN env : lower(n) = field})

\* A str field: the variable's value or the default.
StrField(env, field, default) ==
    LET Value(v) == IF v.present THEN v.val ELSE default
    IN Value(EnvValue(env, field))

\* The int of a str of decimal digits.
RECURSIVE DecimalValue(_, _)
DecimalValue(s, k) ==
    IF k = 0 THEN 0
    ELSE DecimalValue(s, k - 1) * (10 ^ (s[k].e - RunStart(s, k)))
         + ((CHOOSE d \in 0..9 : Digits[d + 1] = s[k].c)
                * (((10 ^ (s[k].e - RunStart(s, k))) - 1) \div 9))

\* port: int = 8000
PortField(env) ==
    LET Value(v) ==
            IF ~v.present THEN Return(DefaultPort)
            ELSE IF v.val # <<>>
                    /\ \A i \in 1..Len(v.val) :
                           \E d \in 1..10 : Digits[d] = v.val[i].c
            THEN Return(DecimalValue(v.val, Len(v.val)))
            ELSE Raise([loc |-> <<S(field_port)>>, msg |-> MsgIntParsing])
    IN Value(EnvValue(env, field_port))

\* validate_bedrock_api_key without v.strip() in the test.
validate_bedrock_api_keyNotEmpty(v) ==
    IF v = <<>>
    THEN Raise(Exc("ValueError", MsgTokenRequired))
    ELSE Return(strip(v))

\* @field_validator("aws_bearer_token_bedrock")
validate_bedrock_api_key(v) ==
    IF v = <<>> \/ strip(v) = <<>>
    THEN Raise(Exc("ValueError", MsgTokenRequired))
    ELSE Return(strip(v))

\* aws_bearer_token_bedrock: str = "": the validator is applied to the
\* variable's value and to the default (validate_default of BaseSettings).
TokenField(env) ==
    LET Value(r) ==
            IF r.kind = "return" THEN r
            ELSE Raise([loc |-> <<S(field_aws_bearer_token_bedrock)>>,
                        msg |-> Cat(ValueErrorPrefix, r.exc.text)])
    IN Value(validate_bedrock_api_key(
                 StrField(env, field_aws_bearer_token_bedrock, <<>>)))

\* Settings with the fields of the environment matched by their exact
\* names only.
SettingsCaseSensitive(env) ==
    LET CaseSensitive(e) ==
            [n \in {m \in DOMAIN e : lower(m) = m} |-> e[n]]
        Built(e, token, port) ==
            IF token.kind = "raise" \/ port.kind = "raise"
            THEN Raise([type |-> "ValidationError",
                        errors |->
                            (IF token.kind = "raise" THEN <<token.exc>>
                             ELSE <<>>)
                            \o (IF port.kind = "raise" THEN <<port.exc>>
                                ELSE <<>>)])
            ELSE Return(
                [aws_region |-> StrField(e, field_aws_region, DefaultRegion),
                 aws_bearer_token_bedrock |-> token.value,
                 bedrock_model_id |->
                     StrField(e, field_bedrock_model_id, DefaultModelId),
                 log_level |-> StrField(e, field_log_level, DefaultLogLevel),
                 host |-> StrField(e, field_host, DefaultHost),
                 port |-> port.value])
        Read(e) == Built(e, TokenField(e), PortField(e))
    IN Read(CaseSensitive(env))

\* Settings(): every field from the environment or its default; the
\* ValidationError lists the fields that failed, in the order of the class.
Settings(env) ==
    LET Built(token, port) ==
            IF token.kind = "raise" \/ port.kind = "raise"
            THEN Raise([type |-> "ValidationError",
                        errors |->
                            (IF token.kind = "raise" THEN <<token.exc>>
                             ELSE <<>>)
                            \o (IF port.kind = "raise" THEN <<port.exc>>
                                ELSE <<>>)])
            ELSE Return(
                [aws_region |->
                     StrField(env, field_aws_region, DefaultRegion),
                 aws_bearer_token_bedrock |-> token.value,
                 bedrock_model_id |->
                     StrField(env, field_bedrock_model_id, DefaultModelId),
                 log_level |->
                     StrField(env, field_log_level, DefaultLogLevel),
                 host |-> StrField(env, field_host, DefaultHost),
                 port |-> port.value])
    IN Built(TokenField(env), PortField(env))

\* The environments of the startups that succeed, after which requests are
\* served: the token and, with the second, the model id.
Environments ==
    {(AWS_BEARER_TOKEN_BEDROCK :> TokenA),
     (AWS_BEARER_TOKEN_BEDROCK :> TokenB) @@ (BEDROCK_MODEL_ID :> ModelM1)}

\* BedrockClient with the default model id in place of the setting.
BedrockClientDefaultModel(s) == [model_id |-> DefaultModelId]

BedrockClient(s) == [model_id |-> s.bedrock_model_id]

\* os.environ['AWS_BEARER_TOKEN_BEDROCK'] = settings.aws_bearer_token_bedrock
Environ(env, s) ==
    (AWS_BEARER_TOKEN_BEDROCK :> s.aws_bearer_token_bedrock) @@ env

\* A call of logger.info or logger.error: the logger, the level and the
\* pieces of the formatted message, literal text and interpolated values
\* in order.
LogEntry(level, logger, parts) ==
    [level |-> level, logger |-> logger, parts |-> parts]

\* str.upper()
upper(s) ==
    CatAll([i \in 1..Len(s) |->
               Rep(IF \E k \in 1..26 : AsciiLowercase[k] = s[i].c
                   THEN AsciiUppercase[
                            CHOOSE k \in 1..26 : AsciiLowercase[k] = s[i].c]
                   ELSE s[i].c,
                   s[i].e - RunStart(s, i))])

\* The levels of the logging module.
LevelDebug == S(<<"D", "E", "B", "U", "G">>)
LevelInfo == S(<<"I", "N", "F", "O">>)
LevelWarning == S(<<"W", "A", "R", "N", "I", "N", "G">>)
LevelError == S(<<"E", "R", "R", "O", "R">>)
LevelCritical == S(<<"C", "R", "I", "T", "I", "C", "A", "L">>)
LogLevelErrorLowerCase == S(<<"e", "r", "r", "o", "r">>)
LevelNames ==
    <<LevelDebug, LevelInfo, LevelWarning, LevelError, LevelCritical>>

\* getattr(logging, name): 10 for DEBUG up to 50 for CRITICAL.
LoggingLevel(name) ==
    IF \E k \in 1..5 : LevelNames[k] = name
    THEN Return(10 * (CHOOSE k \in 1..5 : LevelNames[k] = name))
    ELSE Raise(Exc("AttributeError", name))

\* logging.basicConfig(level=getattr(logging, settings.log_level.upper())):
\* of the logger calls, those that are emitted.  logger.info is of level
\* 20 and logger.error of level 40.
Emitted(s, calls) ==
    LET Admitted(level) ==
            SelectSeq(calls,
                LAMBDA entry :
                    (IF entry.level = "INFO" THEN 20 ELSE 40) >= level)
    IN Admitted(LoggingLevel(upper(s.log_level)).value)

LogClientInitialized ==
    S(<<"B", "e", "d", "r", "o", "c", "k", " ", "c", "l", "i", "e", "n",
      "t", " ", "i", "n", "i", "t", "i", "a", "l", "i", "z", "e", "d",
      " ", "f", "o", "r", " ", "m", "o", "d", "e", "l", ":", " ">>)

\* logger.info(f'Bedrock client initialized for model: {self.model_id}')
BedrockClientLog(self) ==
    <<LogEntry("INFO", "bedrock_client",
               <<LogClientInitialized, self.model_id>>)>>

----------------------------------------------------------------------------
\* models.py: ProcessRequest and the response models.

\* A member of the JSON body: absent, null, a non-string value or a string.
Missing == [kind |-> "missing", val |-> <<>>]
Null == [kind |-> "null", val |-> <<>>]
NotStr == [kind |-> "int", val |-> <<>>]
Str(s) == [kind |-> "str", val |-> s]

\* One entry of RequestValidationError.errors().
ErrorEntry(loc, msg) == [loc |-> loc, msg |-> msg]

RequestValidationError(errors) ==
    [type |-> "RequestValidationError", errors |-> errors, text |-> <<>>]

HTTPException(status_code, detail) ==
    [type |-> "HTTPException", status_code |-> status_code,
     detail |-> detail, text |-> detail]

\* validate_not_whitespace without the whitespace-only test.
validate_not_whitespaceTrimOnly(v) == Return(strip(v))

\* validate_not_whitespace returning v as submitted.
validate_not_whitespaceUntrimmed(v) ==
    IF strip(v) = <<>>
    THEN Raise(Exc("ValueError", WhitespaceOnlyMessage))
    ELSE Return(v)

\* @field_validator("task", "content"): runs on a value that passed the
\* Field constraints.
validate_not_whitespace(v) ==
    IF strip(v) = <<>>
    THEN Raise(Exc("ValueError", WhitespaceOnlyMessage))
    ELSE Return(strip(v))

MsgTooShort(n) ==
    CatAll(<<MsgTooShortHead, IntToStr(n),
             IF n = 1 THEN MsgCharacter ELSE MsgCharacters>>)

MsgTooLong(n) ==
    CatAll(<<MsgTooLongHead, IntToStr(n),
             IF n = 1 THEN MsgCharacter ELSE MsgCharacters>>)

\* ValidateField with max_length taken as an exclusive bound.
ValidateFieldExclusiveMax(name, f, min_length, max_length) ==
    IF f.kind = "missing"
    THEN Raise(ErrorEntry(<<LocBody, name>>, MsgMissing))
    ELSE IF f.kind # "str"
    THEN Raise(ErrorEntry(<<LocBody, name>>, MsgStringType))
    ELSE IF StrLen(f.val) < min_length
    THEN Raise(ErrorEntry(<<LocBody, name>>, MsgTooShort(min_length)))
    ELSE IF StrLen(f.val) >= max_length
    THEN Raise(ErrorEntry(<<LocBody, name>>, MsgTooLong(max_length)))
    ELSE LET r == validate_not_whitespace(f.val)
         IN IF r.kind = "raise"
            THEN Raise(ErrorEntry(<<LocBody, name>>,
                                  Cat(ValueErrorPrefix, r.exc.text)))
            ELSE r

\* Validation of one str field declared Field(..., min_length, max_length)
\* with the validator above: the type and the length constraints are
\* checked on the submitted value, then the validator runs.
ValidateField(name, f, min_length, max_length) ==
    IF f.kind = "missing"
    THEN Raise(ErrorEntry(<<LocBody, name>>, MsgMissing))
    ELSE IF f.kind # "str"
    THEN Raise(ErrorEntry(<<LocBody, name>>, MsgStringType))
    ELSE IF StrLen(f.val) < min_length
    THEN Raise(ErrorEntry(<<LocBody, name>>, MsgTooShort(min_length)))
    ELSE IF StrLen(f.val) > max_length
    THEN Raise(ErrorEntry(<<LocBody, name>>, MsgTooLong(max_length)))
    ELSE LET r == validate_not_whitespace(f.val)
         IN IF r.kind = "raise"
            THEN Raise(ErrorEntry(<<LocBody, name>>,
                                  Cat(ValueErrorPrefix, r.exc.text)))
            ELSE r

\* ProcessRequest reporting only the first field in error.
ProcessRequestFirstError(body) ==
    LET t == ValidateField(LocTask, body.task, TaskMinLength, TaskMaxLength)
        c == ValidateField(LocContent, body.content,
                           ContentMinLength, ContentMaxLength)
    IN IF t.kind = "raise"
       THEN Raise(RequestValidationError(<<t.exc>>))
       ELSE IF c.kind = "raise"
       THEN Raise(RequestValidationError(<<c.exc>>))
       ELSE Return([task |-> t.value, content |-> c.value])

\* ProcessRequest(**body): every field is validated and the errors of all
\* fields are collected, in declaration order.
ProcessRequest(body) ==
    LET t == ValidateField(LocTask, body.task, TaskMinLength, TaskMaxLength)
        c == ValidateField(LocContent, body.content,
                           ContentMinLength, ContentMaxLength)
        errors == (IF t.kind = "raise" THEN <<t.exc>> ELSE <<>>)
                  \o (IF c.kind = "raise" THEN <<c.exc>> ELSE <<>>)
    IN IF errors # <<>>
       THEN Raise(RequestValidationError(errors))
       ELSE Return([task |-> t.value, content |-> c.value])

\* ProcessMetadata without ge=0.
ProcessMetadataUnchecked(model, tokens_used, processing_time_ms) ==
    Return([model |-> model, tokens_used |-> tokens_used,
            processing_time_ms |-> processing_time_ms])

\* ProcessMetadata: tokens_used and processing_time_ms are Field(..., ge=0).
ProcessMetadata(model, tokens_used, processing_time_ms) ==
    IF tokens_used < 0 \/ processing_time_ms < 0
    THEN Raise(Exc("ValidationError", MsgGreaterEqual))
    ELSE Return([model |-> model, tokens_used |-> tokens_used,
                 processing_time_ms |-> processing_time_ms])

ProcessResponse(result, status, metadata) ==
    [result |-> result, status |-> status, metadata |-> metadata]

ErrorDetail(type, message, details) ==
    [type |-> type, message |-> message, details |-> details]

ErrorResponse(error) == [error |-> error]

JSONResponse(status_code, content) ==
    [status_code |-> status_code, content |-> content]

----------------------------------------------------------------------------
\* main.py: the body parameter of process().  The framework decodes the
\* body as JSON when the request has no Content-Type header or one whose
\* media type is application/json or application/*+json; any other body is
\* handed to the model as raw bytes, which is not an object.

StrApplication == S(<<"a", "p", "p", "l", "i", "c", "a", "t", "i", "o", "n">>)
StrJson == S(<<"j", "s", "o", "n">>)
StrPlusJson == S(<<"+", "j", "s", "o", "n">>)

NoHeader == [present |-> FALSE, val |-> <<>>]
Header(v) == [present |-> TRUE, val |-> v]

\* The media type of a Content-Type value: the text before the first ";".
MediaType(ct) ==
    LET semi == {i \in 1..Len(ct) : ct[i].c = ";"}
    IN IF semi = {} THEN ct
       ELSE SubSeq(ct, 1, (CHOOSE i \in semi : \A j \in semi : i <= j) - 1)

IsJsonMediaType(ct) ==
    LET mt == MediaType(ct)
        slash == {i \in 1..Len(mt) : mt[i].c = "/"}
    IN /\ slash # {}
       /\ LET k == CHOOSE i \in slash : \A j \in slash : i <= j
              sub == Drop(mt, RunStart(mt, k) + 1)
          IN /\ Take(mt, RunStart(mt, k)) = StrApplication
             /\ (sub = StrJson \/ endswith(sub, StrPlusJson))

BodyDecodedAsJson(req) ==
    \/ ~req.content_type.present
    \/ IsJsonMediaType(req.content_type.val)

\* The request model the framework builds for process(), or the
\* RequestValidationError it raises.
ParseBody(req) ==
    IF BodyDecodedAsJson(req)
    THEN ProcessRequest(req)
    ELSE Raise(RequestValidationError(<<ErrorEntry(<<LocBody>>, MsgModelType)>>))

----------------------------------------------------------------------------
\* main.py: the exception handlers.

InvalidValueMessage ==
    S(<<"I", "n", "v", "a", "l", "i", "d", " ", "v", "a", "l", "u", "e", " ",
      "p", "r", "o", "v", "i", "d", "e", "d">>)
UnexpectedErrorMessage ==
    S(<<"A", "n", " ", "u", "n", "e", "x", "p", "e", "c", "t", "e", "d", " ",
      "e", "r", "r", "o", "r", " ", "o", "c", "c", "u", "r", "r", "e", "d">>)
InternalErrorDetails ==
    S(<<"I", "n", "t", "e", "r", "n", "a", "l", " ", "s", "e", "r", "v", "e",
      "r", " ", "e", "r", "r", "o", "r", " ", "-", " ", "p", "l", "e", "a",
      "s", "e", " ", "t", "r", "y", " ", "a", "g", "a", "i", "n", " ", "l",
      "a", "t", "e", "r">>)

validation_exception_handler(exc) ==
    LET error_details ==
            [i \in 1..Len(exc.errors) |->
                CatAll(<<Join(Dot, exc.errors[i].loc), FieldSep,
                         exc.errors[i].msg>>)]
    IN JSONResponse(HTTP_422_UNPROCESSABLE_ENTITY,
           ErrorResponse(ErrorDetail("validation_error",
                                     ValidationFailedMessage,
                                     Join(JoinSep, error_details))))

\* http_exception_handler answering every HTTPException with status 500.
http_exception_handlerAlways500(exc) ==
    JSONResponse(HTTP_500_INTERNAL_SERVER_ERROR,
        ErrorResponse(ErrorDetail("http_error",
                                  Cat(HttpPrefix, IntToStr(exc.status_code)),
                                  exc.detail)))

\* http_exception_handler answering with the framework's default body.
http_exception_handlerDefaultBody(exc) ==
    JSONResponse(exc.status_code, [detail |-> exc.detail])

http_exception_handler(exc) ==
    JSONResponse(exc.status_code,
        ErrorResponse(ErrorDetail("http_error",
                                  Cat(HttpPrefix, IntToStr(exc.status_code)),
                                  exc.detail)))

\* value_error_handler answering like general_exception_handler.
value_error_handlerGeneric(exc) ==
    JSONResponse(HTTP_500_INTERNAL_SERVER_ERROR,
        ErrorResponse(ErrorDetail("internal_error", UnexpectedErrorMessage,
                                  InternalErrorDetails)))

value_error_handler(exc) ==
    JSONResponse(HTTP_400_BAD_REQUEST,
        ErrorResponse(ErrorDetail("value_error", InvalidValueMessage,
                                  exc.text)))

\* general_exception_handler with the text of the exception as details.
general_exception_handlerLeaking(exc) ==
    JSONResponse(HTTP_500_INTERNAL_SERVER_ERROR,
        ErrorResponse(ErrorDetail("internal_error", UnexpectedErrorMessage,
                                  exc.text)))

general_exception_handler(exc) ==
    JSONResponse(HTTP_500_INTERNAL_SERVER_ERROR,
        ErrorResponse(ErrorDetail("internal_error", UnexpectedErrorMessage,
                                  InternalErrorDetails)))

\* The response the application sends for the outcome of a route handler:
\* the returned model with status 200, or the response of the exception
\* handler registered for the class of the raised exception.
Respond(outcome) ==
    IF outcome.kind = "return"
    THEN JSONResponse(HTTP_200_OK, outcome.value)
    ELSE IF outcome.exc.type = "RequestValidationError"
    THEN validation_exception_handler(outcome.exc)
    ELSE IF outcome.exc.type = "HTTPException"
    THEN http_exception_handler(outcome.exc)
    ELSE IF outcome.exc.type \in {"ValueError", "ValidationError"}
    THEN value_error_handler(outcome.exc)
    ELSE general_exception_handler(outcome.exc)

----------------------------------------------------------------------------
\* bedrock_client.py: BedrockClient.process_request.

\* Values of the provider's response: dict, list, None.
Dict(d) == [t |-> "dict", d |-> d]
List(items) == [t |-> "list", items |-> items]
None == [t |-> "none"]
EmptyDict == Dict([k \in {} |-> 0])

ErrKeyZero == S(<<"0">>)

KeyErrorText(key) ==
    CASE key = "output" -> ErrKeyOutput
      [] key = "message" -> ErrKeyMessage
      [] key = "content" -> ErrKeyContent
      [] key = "text" -> ErrKeyText

\* v[key] for a str key
GetItem(v, key) ==
    IF v.t = "dict"
    THEN IF key \in DOMAIN v.d
         THEN Return(v.d[key])
         ELSE Raise(Exc("KeyError", KeyErrorText(key)))
    ELSE Raise(Exc("TypeError", ErrNoneType))

\* v[-1]
GetLast(v) ==
    IF v.t = "list"
    THEN IF Len(v.items) >= 1
         THEN Return(v.items[Len(v.items)])
         ELSE Raise(Exc("IndexError", ErrIndex))
    ELSE IF v.t = "dict"
    THEN Raise(Exc("KeyError", ErrKeyZero))
    ELSE Raise(Exc("TypeError", ErrNoneType))

\* v[0]
GetFirst(v) ==
    IF v.t = "list"
    THEN IF Len(v.items) >= 1
         THEN Return(v.items[1])
         ELSE Raise(Exc("IndexError", ErrIndex))
    ELSE IF v.t = "dict"
    THEN Raise(Exc("KeyError", ErrKeyZero))
    ELSE Raise(Exc("TypeError", ErrNoneType))

\* messages = [{'role': 'user', 'content': [{'text': prompt}]}]
Messages(prompt) == <<[role |-> "user", content |-> <<[text |-> prompt]>>]>>

\* ConverseCalls with a second converse() call.
ConverseCallsTwice(self, prompt) ==
    <<[modelId |-> self.model_id, messages |-> Messages(prompt)],
      [modelId |-> self.model_id, messages |-> Messages(prompt)]>>

\* The provider calls one process_request(prompt) makes:
\* self.client.converse(modelId=self.model_id, messages=messages)
ConverseCalls(self, prompt) ==
    <<[modelId |-> self.model_id, messages |-> Messages(prompt)]>>

\* result = response['output']['message']['content'][0]['text']
ExtractText(response) ==
    LET output == GetItem(response, "output")
    IN IF output.kind = "raise" THEN output
       ELSE LET message == GetItem(output.value, "message")
       IN IF message.kind = "raise" THEN message
          ELSE LET content == GetItem(message.value, "content")
          IN IF content.kind = "raise" THEN content
             ELSE LET first == GetFirst(content.value)
             IN IF first.kind = "raise" THEN first
                ELSE GetItem(first.value, "text")

\* process_request with the response parsed outside the try block.
process_requestParseOutsideTry(self, converse) ==
    IF converse.kind = "raise"
    THEN Return([success |-> FALSE, error |-> converse.exc.text,
                 model |-> self.model_id])
    ELSE LET result == ExtractText(converse.value)
         IN IF result.kind = "return"
            THEN Return([success |-> TRUE, response |-> result.value,
                         model |-> self.model_id])
            ELSE result

\* The try/except of process_request, given what converse() did.
process_request(self, converse) ==
    LET result == IF converse.kind = "raise" THEN converse
                  ELSE ExtractText(converse.value)
    IN IF result.kind = "return"
       THEN Return([success |-> TRUE, response |-> result.value,
                    model |-> self.model_id])
       ELSE Return([success |-> FALSE, error |-> result.exc.text,
                    model |-> self.model_id])

----------------------------------------------------------------------------
\* main.py: process().

\* ContentTypeAccepted without the check of the header.
ContentTypeAcceptedAny(req) == TRUE

\* content_type = raw_request.headers.get("content-type", ""), and the
\* test that raises the 415 HTTPException when it fails.
ContentTypeAccepted(req) ==
    LET content_type == IF req.content_type.present
                        THEN req.content_type.val ELSE <<>>
    IN ~(content_type = <<>> \/ ~startswith(content_type, APPLICATION_JSON))

\* BuildPrompt wrapping every task in the template.
BuildPromptAlwaysTemplate(request) ==
    CatAll(<<TemplateTask, request.task, TemplateContent,
             request.content, TemplateTail>>)

\* BuildPrompt forwarding the content of every task.
BuildPromptBare(request) == request.content

BuildPrompt(request) ==
    IF request.task = GTD_CLARIFICATION
    THEN request.content
    ELSE CatAll(<<TemplateTask, request.task, TemplateContent,
                  request.content, TemplateTail>>)

\* The adapter calls one accepted request makes:
\* bedrock_response = await bedrock_client.process_request(prompt_to_send)
AdapterCalls(request) == <<BuildPrompt(request)>>

\* ProcessTry with tokens_used counting the words of the content only.
ProcessTryContentWords(request, adapter, processing_time_ms) ==
    IF adapter.kind = "raise" THEN adapter
    ELSE LET bedrock_response == adapter.value
         IN IF bedrock_response.success
            THEN LET metadata ==
                         ProcessMetadata(bedrock_response.model,
                             WordCount(request.content),
                             processing_time_ms)
                 IN IF metadata.kind = "raise" THEN metadata
                    ELSE Return(ProcessResponse(bedrock_response.response,
                                                "success", metadata.value))
            ELSE Raise(HTTPException(HTTP_503_SERVICE_UNAVAILABLE,
                           Cat(AiServiceErrorPrefix,
                               bedrock_response.error)))

\* ProcessTry counting the words of the result only.
ProcessTryResponseWords(request, adapter, processing_time_ms) ==
    IF adapter.kind = "raise" THEN adapter
    ELSE LET bedrock_response == adapter.value
         IN IF bedrock_response.success
            THEN LET metadata ==
                         ProcessMetadata(bedrock_response.model,
                             WordCount(bedrock_response.response),
                             processing_time_ms)
                 IN IF metadata.kind = "raise" THEN metadata
                    ELSE Return(ProcessResponse(bedrock_response.response,
                                                "success", metadata.value))
            ELSE Raise(HTTPException(HTTP_503_SERVICE_UNAVAILABLE,
                           Cat(AiServiceErrorPrefix,
                               bedrock_response.error)))

\* The try block after the adapter call.
ProcessTry(request, adapter, processing_time_ms) ==
    IF adapter.kind = "raise" THEN adapter
    ELSE LET bedrock_response == adapter.value
         IN IF bedrock_response.success
            THEN LET metadata ==
                         ProcessMetadata(bedrock_response.model,
                             WordCount(request.content)
                                 + WordCount(bedrock_response.response),
                             processing_time_ms)
                 IN IF metadata.kind = "raise" THEN metadata
                    ELSE Return(ProcessResponse(bedrock_response.response,
                                                "success", metadata.value))
            ELSE Raise(HTTPException(HTTP_503_SERVICE_UNAVAILABLE,
                           Cat(AiServiceErrorPrefix,
                               bedrock_response.error)))

\* ProcessExcept reporting the credential token of the settings as the
\* model.
ProcessExceptWrongField(s, tried, processing_time_ms) ==
    IF tried.kind = "return" THEN tried
    ELSE IF tried.exc.type = "HTTPException" THEN tried
    ELSE LET metadata == ProcessMetadata(s.aws_bearer_token_bedrock, 0,
                                        processing_time_ms)
         IN IF metadata.kind = "raise" THEN metadata
            ELSE Return(ProcessResponse(
                            Cat(ErrorProcessingPrefix, tried.exc.text),
                            "error", metadata.value))

\* ProcessExcept without the "except HTTPException: raise" clause.
ProcessExceptCatchAll(s, tried, processing_time_ms) ==
    IF tried.kind = "return" THEN tried
    ELSE LET metadata == ProcessMetadata(s.bedrock_model_id, 0,
                                        processing_time_ms)
         IN IF metadata.kind = "raise" THEN metadata
            ELSE Return(ProcessResponse(
                            Cat(ErrorProcessingPrefix, tried.exc.text),
                            "error", metadata.value))

\* The except clauses: an HTTPException is re-raised, any other exception
\* becomes a ProcessResponse with status "error".
ProcessExcept(s, tried, processing_time_ms) ==
    IF tried.kind = "return" THEN tried
    ELSE IF tried.exc.type = "HTTPException" THEN tried
    ELSE LET metadata == ProcessMetadata(s.bedrock_model_id, 0,
                                        processing_time_ms)
         IN IF metadata.kind = "raise" THEN metadata
            ELSE Return(ProcessResponse(
                            Cat(ErrorProcessingPrefix, tried.exc.text),
                            "error", metadata.value))

----------------------------------------------------------------------------
\* The requests clients send and the behaviours of the provider.

StrOrganize == S(<<"o", "r", "g", "a", "n", "i", "z", "e">>)
StrOrganizePadded ==
    S(<<" ", " ", "o", "r", "g", "a", "n", "i", "z", "e", " ", " ">>)
StrGtdPadded ==
    S(<<" ", "g", "t", "d", "-", "c", "l", "a", "r", "i", "f", "i", "c", "a",
      "t", "i", "o", "n", "\n">>)
StrGtdUpper ==
    S(<<"G", "T", "D", "-", "C", "l", "a", "r", "i", "f", "i", "c", "a", "t",
      "i", "o", "n">>)
StrCleanInbox ==
    S(<<"C", "l", "e", "a", "n", " ", "u", "p", " ", "m", "y", " ", "i", "n",
      "b", "o", "x">>)
StrSomeContentPadded ==
    S(<<" ", " ", "S", "o", "m", "e", " ", "c", "o", "n", "t", "e", "n", "t",
      " ", " ">>)
CtJsonCharset ==
    S(<<"a", "p", "p", "l", "i", "c", "a", "t", "i", "o", "n", "/", "j", "s",
      "o", "n", ";", " ", "c", "h", "a", "r", "s", "e", "t", "=", "u", "t",
      "f", "-", "8">>)
CtForm ==
    S(<<"a", "p", "p", "l", "i", "c", "a", "t", "i", "o", "n", "/", "x", "-",
      "w", "w", "w", "-", "f", "o", "r", "m", "-", "u", "r", "l", "e", "n",
      "c", "o", "d", "e", "d">>)
CtVendorJson ==
    S(<<"a", "p", "p", "l", "i", "c", "a", "t", "i", "o", "n", "/", "v", "n",
      "d", ".", "a", "p", "i", "+", "j", "s", "o", "n">>)
RespCleanInbox ==
    S(<<"1", ".", " ", "C", "l", "e", "a", "n", " ", "i", "n", "b", "o", "x">>)
RespPadded == S(<<" ", "o", "k", "\t", "d", "o", "n", "e", " ", "\n">>)

TaskFields ==
    {Missing, Null, NotStr, Str(<<>>), Str(Rep(" ", 3)),
     Str(StrOrganize), Str(StrOrganizePadded), Str(GTD_CLARIFICATION),
     Str(StrGtdPadded), Str(StrGtdUpper),
     Str(Rep("x", TaskMaxLength)),
     Str(Cat(Rep(" ", 1), Rep("x", TaskMaxLength))),
     Str(Rep("x", TaskMaxLength + 1))}

ContentFields ==
    {Missing, Null, Str(<<>>), Str(S(<<" ", "\n", "\t">>)),
     Str(StrCleanInbox), Str(StrSomeContentPadded),
     Str(Rep("x", ContentMaxLength)),
     Str(Cat(Rep("x", ContentMaxLength), Rep("\n", 1))),
     Str(Rep("x", ContentMaxLength + 1))}

Bodies ==
    {[task |-> t, content |-> Str(StrCleanInbox)] : t \in TaskFields}
    \cup {[task |-> t, content |-> c] :
             t \in {Str(StrOrganize), Str(GTD_CLARIFICATION)},
             c \in ContentFields}
    \cup {[task |-> t, content |-> c] :
             t \in {Missing, Str(<<>>), Str(Rep("x", TaskMaxLength + 1))},
             c \in {Missing, Str(<<>>), Str(S(<<" ", "\n", "\t">>))}}

ClientRequests ==
    {[task |-> b.task, content |-> b.content,
      content_type |-> Header(APPLICATION_JSON)] : b \in Bodies}
    \cup {[task |-> Str(StrOrganize), content |-> c, content_type |-> h] :
             c \in {Str(StrCleanInbox), Str(<<>>)},
             h \in {NoHeader, Header(CtJsonCharset), Header(CtForm),
                    Header(CtVendorJson)}}

WellFormed(text) ==
    Dict([output |-> Dict([message |->
        Dict([content |-> List(<<Dict([text |-> text])>>)])])])

ResponseTexts == {RespCleanInbox, RespPadded, <<>>}

\* A response whose message has two content elements.
TwoElements(first, second) ==
    Dict([output |-> Dict([message |-> Dict([content |->
        List(<<Dict([text |-> first]), Dict([text |-> second])>>)])])])

MalformedResponses ==
    {EmptyDict,
     Dict([output |-> None]),
     Dict([output |-> Dict([message |-> EmptyDict])]),
     Dict([output |-> Dict([message |-> Dict([content |-> List(<<>>)])])]),
     Dict([output |-> Dict([message |->
         Dict([content |-> List(<<EmptyDict>>)])])])}

ProviderExceptions ==
    {Exc("ClientError", ErrThrottling), Exc("BotoCoreError", ErrUnspecified)}

\* What one converse() call can do.
ConverseOutcomes ==
    {Return(WellFormed(t)) : t \in ResponseTexts}
    \cup {Return(TwoElements(RespCleanInbox, RespPadded))}
    \cup {Return(m) : m \in MalformedResponses}
    \cup {Raise(e) : e \in ProviderExceptions}

\* int((time.time() - start_time) * 1000), for a clock that does not step
\* backwards while the request is handled.
ElapsedMs == {0, 7}

----------------------------------------------------------------------------
\* The logger calls.

LogBedrockSucceeded ==
    S(<<"S", "u", "c", "c", "e", "s", "s", "f", "u", "l", "l", "y", " ",
      "p", "r", "o", "c", "e", "s", "s", "e", "d", " ", "B", "e", "d",
      "r", "o", "c", "k", " ", "r", "e", "q", "u", "e", "s", "t">>)
LogBedrockFailed ==
    S(<<"B", "e", "d", "r", "o", "c", "k", " ", "r", "e", "q", "u", "e",
      "s", "t", " ", "f", "a", "i", "l", "e", "d", ":", " ">>)
LogValidationError ==
    S(<<"V", "a", "l", "i", "d", "a", "t", "i", "o", "n", " ", "e", "r",
      "r", "o", "r", " ", "o", "n", " ">>)
LogHttpException ==
    S(<<"H", "T", "T", "P", " ", "e", "x", "c", "e", "p", "t", "i", "o",
      "n", " ", "o", "n", " ">>)
LogDash == S(<<" ", "-", " ">>)
LogValueError ==
    S(<<"V", "a", "l", "u", "e", " ", "e", "r", "r", "o", "r", " ", "o",
      "n", " ">>)
LogUnhandled ==
    S(<<"U", "n", "h", "a", "n", "d", "l", "e", "d", " ", "e", "x", "c",
      "e", "p", "t", "i", "o", "n", " ", "o", "n", " ">>)
LogRootAccessed ==
    S(<<"R", "o", "o", "t", " ", "e", "n", "d", "p", "o", "i", "n", "t",
      " ", "a", "c", "c", "e", "s", "s", "e", "d">>)
LogHealthAccessed ==
    S(<<"H", "e", "a", "l", "t", "h", " ", "e", "n", "d", "p", "o", "i",
      "n", "t", " ", "a", "c", "c", "e", "s", "s", "e", "d">>)
LogProcessAccessed ==
    S(<<"P", "r", "o", "c", "e", "s", "s", " ", "e", "n", "d", "p", "o",
      "i", "n", "t", " ", "a", "c", "c", "e", "s", "s", "e", "d", " ",
      "w", "i", "t", "h", " ", "t", "a", "s", "k", ":", " ">>)
LogProcessCompleted ==
    S(<<"P", "r", "o", "c", "e", "s", "s", " ", "c", "o", "m", "p", "l",
      "e", "t", "e", "d", " ", "s", "u", "c", "c", "e", "s", "s", "f",
      "u", "l", "l", "y", " ", "i", "n", " ">>)
LogMs == S(<<"m", "s">>)
LogProcessingFailed ==
    S(<<"B", "e", "d", "r", "o", "c", "k", " ", "p", "r", "o", "c", "e",
      "s", "s", "i", "n", "g", " ", "f", "a", "i", "l", "e", "d", ":",
      " ">>)
ProcessUrl ==
    S(<<"h", "t", "t", "p", ":", "/", "/", "l", "o", "c", "a", "l", "h",
      "o", "s", "t", ":", "8", "0", "0", "0", "/", "p", "r", "o", "c",
      "e", "s", "s">>)
NameKeyError == S(<<"K", "e", "y", "E", "r", "r", "o", "r">>)
NameIndexError == S(<<"I", "n", "d", "e", "x", "E", "r", "r", "o", "r">>)
NameTypeError == S(<<"T", "y", "p", "e", "E", "r", "r", "o", "r">>)
NameClientError ==
    S(<<"C", "l", "i", "e", "n", "t", "E", "r", "r", "o", "r">>)
NameBotoCoreError ==
    S(<<"B", "o", "t", "o", "C", "o", "r", "e", "E", "r", "r", "o", "r">>)
NameValidationError ==
    S(<<"V", "a", "l", "i", "d", "a", "t", "i", "o", "n", "E", "r", "r",
      "o", "r">>)
NameValueError == S(<<"V", "a", "l", "u", "e", "E", "r", "r", "o", "r">>)

\* process_requestLog with logger.info called before the text is taken
\* from the response.
process_requestLogBeforeParse(self, converse) ==
    LET Logged(result) ==
            (IF converse.kind = "return"
             THEN <<LogEntry("INFO", "bedrock_client",
                             <<LogBedrockSucceeded>>)>>
             ELSE <<>>)
            \o (IF result.value.success THEN <<>>
                ELSE <<LogEntry("ERROR", "bedrock_client",
                                <<LogBedrockFailed, result.value.error>>)>>)
    IN Logged(process_request(self, converse))

\* The logger call of process_request: logger.info on success,
\* logger.error(f'Bedrock request failed: {str(e)}') in the except clause.
process_requestLog(self, converse) ==
    LET Logged(result) ==
            IF result.kind = "raise" THEN <<>>
            ELSE IF result.value.success
            THEN <<LogEntry("INFO", "bedrock_client",
                            <<LogBedrockSucceeded>>)>>
            ELSE <<LogEntry("ERROR", "bedrock_client",
                            <<LogBedrockFailed, result.value.error>>)>>
    IN Logged(process_request(self, converse))

\* type(exc).__name__
TypeName(exc) ==
    CASE exc.type = "KeyError" -> NameKeyError
      [] exc.type = "IndexError" -> NameIndexError
      [] exc.type = "TypeError" -> NameTypeError
      [] exc.type = "ClientError" -> NameClientError
      [] exc.type = "BotoCoreError" -> NameBotoCoreError
      [] exc.type = "ValidationError" -> NameValidationError
      [] OTHER -> NameValueError

\* The texts of the errors of a RequestValidationError: location and
\* message of each.
ErrorTexts(exc) ==
    [i \in 1..(2 * Len(exc.errors)) |->
        IF i % 2 = 1 THEN Join(Dot, exc.errors[(i + 1) \div 2].loc)
        ELSE exc.errors[i \div 2].msg]

\* The logger.error call of the exception handler that answers the
\* outcome of a route handler of /process; none when it returned.
HandlerLog(outcome) ==
    IF outcome.kind = "return" THEN <<>>
    ELSE IF outcome.exc.type = "RequestValidationError"
    THEN <<LogEntry("ERROR", "main",
               <<LogValidationError, ProcessUrl, FieldSep>>
                   \o ErrorTexts(outcome.exc))>>
    ELSE IF outcome.exc.type = "HTTPException"
    THEN <<LogEntry("ERROR", "main",
               <<LogHttpException, ProcessUrl, FieldSep,
                 IntToStr(outcome.exc.status_code), LogDash,
                 outcome.exc.detail>>)>>
    ELSE IF outcome.exc.type \in {"ValueError", "ValidationError"}
    THEN <<LogEntry("ERROR", "main",
               <<LogValueError, ProcessUrl, FieldSep, outcome.exc.text>>)>>
    ELSE <<LogEntry("ERROR", "main",
               <<LogUnhandled, ProcessUrl, FieldSep, TypeName(outcome.exc),
                 FieldSep, outcome.exc.text>>)>>

\* logger.info(f"Process endpoint accessed with task: {request.task}")
ProcessAccessedLog(request) ==
    <<LogEntry("INFO", "main", <<LogProcessAccessed, request.task>>)>>

\* The logger call of process() after the adapter call: the info entry
\* before the return, the error entry before the 503 HTTPException, or
\* the error entry of the "except Exception" clause.
ProcessLog(adapter, tried, processing_time_ms) ==
    IF tried.kind = "return"
    THEN <<LogEntry("INFO", "main",
               <<LogProcessCompleted, IntToStr(processing_time_ms),
                 LogMs>>)>>
    ELSE IF tried.exc.type = "HTTPException"
    THEN <<LogEntry("ERROR", "main",
               <<LogProcessingFailed, adapter.value.error>>)>>
    ELSE <<LogEntry("ERROR", "main",
               <<ErrorProcessingPrefix, tried.exc.text>>)>>

\* The exceptions raised in the body of process() after the adapter call:
\* by the try block, and by the "except Exception" clause when it builds
\* its ProcessMetadata.
RaisedInProcess(tried, outcome) ==
    IF tried.kind = "return" THEN <<>>
    ELSE IF tried.exc.type = "HTTPException" THEN <<tried.exc>>
    ELSE IF outcome.kind = "raise" THEN <<tried.exc, outcome.exc>>
    ELSE <<tried.exc>>

----------------------------------------------------------------------------
\* State.

VARIABLES
    settings,        \* config.settings
    bedrock_client,  \* bedrock_client.bedrock_client
    environ,         \* os.environ
    startup,         \* the start of the process: its phase, the environment
                     \* it was started in and the exception it ended with
    pc,              \* pc[r]: where request r is
    request,         \* request[r]: the HTTP request as the client sent it
    validated,       \* validated[r]: the ProcessRequest passed to process()
    raised,          \* raised[r]: exceptions raised in the body of process()
    adapterCalls,    \* adapterCalls[r]: prompts passed to process_request
    converseCalls,   \* converseCalls[r]: arguments of the converse() calls
    converseResults, \* converseResults[r]: what each converse() call did
    adapterResults,  \* adapterResults[r]: outcome of each process_request
    responses,       \* responses[r]: the responses sent for request r
    log,             \* log[r]: logger calls made for request r; log[0]: at
                     \* startup
    running,         \* the request whose handler holds the event loop, or 0
    probe,           \* a GET request (/ or /health) and its response
    history          \* earlier exchanges on connections that were reused

config == <<settings, bedrock_client, environ, startup>>

vars == <<settings, bedrock_client, environ, startup, pc, request, validated,
          raised, adapterCalls, converseCalls, converseResults,
          adapterResults, responses, log, running, probe, history>>

Requests == 1..MaxRequests

NoRequest ==
    [task |-> Missing, content |-> Missing, content_type |-> NoHeader]

NoModel == [task |-> <<>>, content |-> <<>>]

NoProbe == [pc |-> "idle", path |-> "", responses |-> <<>>, log |-> <<>>]

\* The module-level statements run at import: settings = Settings(),
\* bedrock_client = BedrockClient(); no request has arrived.
Init ==
    /\ \E env \in Environments :
          /\ startup = [pc |-> "serving", env |-> env, raised |-> <<>>]
          /\ settings = Settings(env).value
          /\ environ = Environ(env, settings)
    /\ bedrock_client = BedrockClient(settings)
    /\ pc = [r \in Requests |-> "idle"]
    /\ request = [r \in Requests |-> NoRequest]
    /\ validated = [r \in Requests |-> NoModel]
    /\ raised = [r \in Requests |-> <<>>]
    /\ adapterCalls = [r \in Requests |-> <<>>]
    /\ converseCalls = [r \in Requests |-> <<>>]
    /\ converseResults = [r \in Requests |-> <<>>]
    /\ adapterResults = [r \in Requests |-> <<>>]
    /\ responses = [r \in Requests |-> <<>>]
    /\ log = [r \in 0..MaxRequests |->
                 IF r = 0 THEN BedrockClientLog(bedrock_client) ELSE <<>>]
    /\ running = 0
    /\ probe = NoProbe
    /\ history = {}

\* A client sends POST /process.
Submit(r) ==
    /\ startup.pc = "serving"
    /\ pc[r] = "idle"
    /\ \A q \in 1..(r - 1) : pc[q] # "idle"
    /\ \E req \in ClientRequests : request' = [request EXCEPT ![r] = req]
    /\ pc' = [pc EXCEPT ![r] = "submitted"]
    /\ UNCHANGED <<config, validated, raised, adapterCalls, converseCalls,
                   converseResults, adapterResults, responses, log, running,
                   probe, history>>

\* The framework builds the ProcessRequest argument of process(): on a
\* validation error the request is answered by
\* validation_exception_handler, otherwise process() is entered.
Validate(r) ==
    /\ pc[r] = "submitted"
    /\ running = 0
    /\ LET parsed == ParseBody(request[r])
       IN IF parsed.kind = "raise"
          THEN /\ responses' = [responses EXCEPT
                                   ![r] = Append(@, Respond(parsed))]
               /\ log' = [log EXCEPT ![r] = @ \o HandlerLog(parsed)]
               /\ pc' = [pc EXCEPT ![r] = "done"]
               /\ UNCHANGED <<validated, running>>
          ELSE /\ validated' = [validated EXCEPT ![r] = parsed.value]
               /\ pc' = [pc EXCEPT ![r] = "process"]
               /\ running' = r
               /\ UNCHANGED <<responses, log>>
    /\ UNCHANGED <<config, request, raised, adapterCalls, converseCalls,
                   converseResults, adapterResults, probe, history>>

\* process() up to the provider call: the Content-Type check, the prompt,
\* the call of bedrock_client.process_request and, in it, of converse().
ProcessCall(r) ==
    /\ pc[r] = "process"
    /\ running = r
    /\ IF ~ContentTypeAccepted(request[r])
       THEN \E outcome \in
                   {ProcessExcept(settings,
                                  Raise(HTTPException(
                                            HTTP_415_UNSUPPORTED_MEDIA_TYPE,
                                            ContentTypeDetail)),
                                  ms) : ms \in ElapsedMs} :
               /\ raised' = [raised EXCEPT
                                ![r] = Append(@, HTTPException(
                                           HTTP_415_UNSUPPORTED_MEDIA_TYPE,
                                           ContentTypeDetail))]
               /\ responses' = [responses EXCEPT
                                   ![r] = Append(@, Respond(outcome))]
               /\ log' = [log EXCEPT
                             ![r] = @ \o ProcessAccessedLog(validated[r])
                                      \o HandlerLog(outcome)]
               /\ pc' = [pc EXCEPT ![r] = "done"]
               /\ running' = 0
               /\ UNCHANGED <<adapterCalls, converseCalls>>
       ELSE LET prompts == AdapterCalls(validated[r])
            IN /\ adapterCalls' = [adapterCalls EXCEPT ![r] = @ \o prompts]
               /\ converseCalls' = [converseCalls EXCEPT
                      ![r] = @ \o ConverseCalls(bedrock_client, prompts[1])]
               /\ log' = [log EXCEPT
                             ![r] = @ \o ProcessAccessedLog(validated[r])]
               /\ pc' = [pc EXCEPT ![r] = "converse"]
               /\ UNCHANGED <<raised, responses, running>>
    /\ UNCHANGED <<config, request, validated, converseResults,
                   adapterResults, probe, history>>

\* Handled with a count of the earlier exchanges added to tokens_used.
HandledCounting(validated_request, converse, ms, ms2) ==
    LET Counted(resp) ==
            IF resp.status_code = 200
            THEN [resp EXCEPT !.content.metadata.tokens_used =
                                  @ + Cardinality(history)]
            ELSE resp
        Responded(adapter, tried, outcome) ==
            [adapter |-> adapter,
             raised |-> RaisedInProcess(tried, outcome),
             response |-> Counted(Respond(outcome)),
             log |-> process_requestLog(bedrock_client, converse)
                         \o ProcessLog(adapter, tried, ms)
                         \o HandlerLog(outcome)]
        Excepted(adapter, tried) ==
            Responded(adapter, tried, ProcessExcept(settings, tried, ms2))
        Tried(adapter) ==
            Excepted(adapter, ProcessTry(validated_request, adapter, ms))
    IN Tried(process_request(bedrock_client, converse))

\* The rest of process() once converse() has returned or raised, with the
\* two readings of the elapsed time: process_request returns its result
\* and process() maps it to the response.
Handled(validated_request, converse, ms, ms2) ==
    LET Responded(adapter, tried, outcome) ==
            [adapter |-> adapter,
             raised |-> RaisedInProcess(tried, outcome),
             response |-> Respond(outcome),
             log |-> process_requestLog(bedrock_client, converse)
                         \o ProcessLog(adapter, tried, ms)
                         \o HandlerLog(outcome)]
        Excepted(adapter, tried) ==
            Responded(adapter, tried, ProcessExcept(settings, tried, ms2))
        Tried(adapter) ==
            Excepted(adapter, ProcessTry(validated_request, adapter, ms))
    IN Tried(process_request(bedrock_client, converse))

\* ProcessReturn that sends no response when the provider call raised.
ProcessReturnNoResponse(r) ==
    /\ pc[r] = "converse"
    /\ running = r
    /\ \E converse \in ConverseOutcomes, ms \in ElapsedMs, ms2 \in ElapsedMs :
          /\ ms <= ms2
          /\ converseResults' = [converseResults EXCEPT
                                    ![r] = Append(@, converse)]
          /\ \E h \in {Handled(validated[r], converse, ms, ms2)} :
                /\ adapterResults' = [adapterResults EXCEPT
                                         ![r] = Append(@, h.adapter)]
                /\ raised' = [raised EXCEPT ![r] = @ \o h.raised]
                /\ responses' = [responses EXCEPT
                                    ![r] = IF converse.kind = "raise" THEN @
                                           ELSE Append(@, h.response)]
                /\ log' = [log EXCEPT ![r] = @ \o h.log]
    /\ pc' = [pc EXCEPT ![r] = "done"]
    /\ running' = 0
    /\ UNCHANGED <<config, request, validated, adapterCalls, converseCalls,
                   probe, history>>

\* converse() returns or raises while the clock runs forward, and
\* process() runs to its end.
ProcessReturn(r) ==
    /\ pc[r] = "converse"
    /\ running = r
    /\ \E converse \in ConverseOutcomes, ms \in ElapsedMs, ms2 \in ElapsedMs :
          /\ ms <= ms2
          /\ converseResults' = [converseResults EXCEPT
                                    ![r] = Append(@, converse)]
          /\ \E h \in {Handled(validated[r], converse, ms, ms2)} :
                /\ adapterResults' = [adapterResults EXCEPT
                                         ![r] = Append(@, h.adapter)]
                /\ raised' = [raised EXCEPT ![r] = @ \o h.raised]
                /\ responses' = [responses EXCEPT
                                    ![r] = Append(@, h.response)]
                /\ log' = [log EXCEPT ![r] = @ \o h.log]
    /\ pc' = [pc EXCEPT ![r] = "done"]
    /\ running' = 0
    /\ UNCHANGED <<config, request, validated, adapterCalls, converseCalls,
                   probe, history>>

Next ==
    \E r \in Requests :
        \/ Submit(r)
        \/ Validate(r)
        \/ ProcessCall(r)
        \/ ProcessReturn(r)

Spec == Init /\ [][Next]_vars

----------------------------------------------------------------------------
\* BedrockClient.process_request called directly, as its unit tests do,
\* with prompts the /process handler never builds.

Prompts ==
    {<<>>, Rep(" ", 2), S(<<"T", "e", "s", "t", " ", "p", "r", "o", "m", "p", "t">>),
     Rep("x", 3 * ContentMaxLength)}

DirectCall(r) ==
    /\ startup.pc = "serving"
    /\ pc[r] = "idle"
    /\ running = 0
    /\ \A q \in 1..(r - 1) : pc[q] # "idle"
    /\ \E prompt \in Prompts :
          /\ adapterCalls' = [adapterCalls EXCEPT ![r] = Append(@, prompt)]
          /\ converseCalls' = [converseCalls EXCEPT
                 ![r] = @ \o ConverseCalls(bedrock_client, prompt)]
    /\ pc' = [pc EXCEPT ![r] = "direct"]
    /\ running' = r
    /\ UNCHANGED <<config, request, validated, raised, converseResults,
                   adapterResults, responses, log, probe, history>>

DirectReturn(r) ==
    /\ pc[r] = "direct"
    /\ running = r
    /\ \E converse \in ConverseOutcomes :
          /\ converseResults' = [converseResults EXCEPT
                                    ![r] = Append(@, converse)]
          /\ adapterResults' = [adapterResults EXCEPT
                 ![r] = Append(@, process_request(bedrock_client, converse))]
          /\ log' = [log EXCEPT
                 ![r] = @ \o process_requestLog(bedrock_client, converse)]
    /\ pc' = [pc EXCEPT ![r] = "returned"]
    /\ running' = 0
    /\ UNCHANGED <<config, request, validated, raised, adapterCalls,
                   converseCalls, responses, probe, history>>

NextAdapter ==
    \E r \in Requests :
        \/ Submit(r)
        \/ Validate(r)
        \/ ProcessCall(r)
        \/ ProcessReturn(r)
        \/ DirectCall(r)
        \/ DirectReturn(r)

SpecAdapter == Init /\ [][NextAdapter]_vars

----------------------------------------------------------------------------
\* time.time() is the wall clock: it can be set back while a request is
\* handled.

\* int((time.time() - start_time) * 1000) read after the clock was set
\* back behind start_time.
SetBackMs == {-3}

\* converse() returns or raises after the wall clock was set back: the
\* elapsed time read in the try block is negative, the one read in the
\* except clause is negative too or, the clock having caught up, is not.
ProcessReturnClockSetBack(r) ==
    /\ pc[r] = "converse"
    /\ running = r
    /\ \E converse \in ConverseOutcomes, ms \in SetBackMs,
          ms2 \in SetBackMs \cup ElapsedMs :
          /\ converseResults' = [converseResults EXCEPT
                                    ![r] = Append(@, converse)]
          /\ \E h \in {Handled(validated[r], converse, ms, ms2)} :
             /\ adapterResults' = [adapterResults EXCEPT
                                      ![r] = Append(@, h.adapter)]
             /\ raised' = [raised EXCEPT ![r] = @ \o h.raised]
             /\ responses' = [responses EXCEPT ![r] = Append(@, h.response)]
             /\ log' = [log EXCEPT ![r] = @ \o h.log]
    /\ pc' = [pc EXCEPT ![r] = "done"]
    /\ running' = 0
    /\ UNCHANGED <<config, request, validated, adapterCalls, converseCalls,
                   probe, history>>

NextClock ==
    \E r \in Requests :
        \/ Submit(r)
        \/ Validate(r)
        \/ ProcessCall(r)
        \/ ProcessReturn(r)
        \/ ProcessReturnClockSetBack(r)

SpecClock == Init /\ [][NextClock]_vars

----------------------------------------------------------------------------
\* main.py: GET / and GET /health, requested while POST /process requests
\* are handled.

RootMessage ==
    S(<<"F", "a", "s", "t", "A", "P", "I", " ", "B", "e", "d", "r", "o",
      "c", "k", " ", "S", "e", "r", "v", "i", "c", "e", " ", "i", "s",
      " ", "r", "u", "n", "n", "i", "n", "g">>)
StrHealthy == S(<<"h", "e", "a", "l", "t", "h", "y">>)
StrServiceName ==
    S(<<"f", "a", "s", "t", "a", "p", "i", "-", "b", "e", "d", "r", "o",
      "c", "k", "-", "s", "e", "r", "v", "i", "c", "e">>)
StrVersion == S(<<"1", ".", "0", ".", "0">>)
TimestampA ==
    S(<<"2", "0", "2", "5", "-", "0", "1", "-", "0", "1", "T", "0", "0",
      ":", "0", "0", ":", "0", "0", ".", "0", "0", "0", "0", "0", "1",
      "Z">>)
TimestampB ==
    S(<<"2", "0", "2", "5", "-", "0", "6", "-", "3", "0", "T", "2", "3",
      ":", "5", "9", ":", "5", "9", ".", "9", "9", "9", "9", "9", "9",
      "Z">>)

\* datetime.now(timezone.utc).isoformat().replace("+00:00", "Z")
Timestamps == {TimestampA, TimestampB}

root == Return([message |-> RootMessage])

\* health() reporting the last provider failure.
healthOfProvider(timestamp) ==
    IF \E r \in Requests :
           \E i \in 1..Len(adapterResults[r]) :
               ~adapterResults[r][i].value.success
    THEN Raise(HTTPException(HTTP_503_SERVICE_UNAVAILABLE, StrHealthy))
    ELSE Return([status |-> StrHealthy, service |-> StrServiceName,
                 version |-> StrVersion, timestamp |-> timestamp])

health(timestamp) ==
    Return([status |-> StrHealthy, service |-> StrServiceName,
            version |-> StrVersion, timestamp |-> timestamp])

\* A client sends GET / or GET /health.
SubmitGet ==
    /\ startup.pc = "serving"
    /\ probe.pc = "idle"
    /\ \E path \in {"/", "/health"} :
          probe' = [probe EXCEPT !.pc = "submitted", !.path = path]
    /\ UNCHANGED <<config, pc, request, validated, raised, adapterCalls,
                   converseCalls, converseResults, adapterResults,
                   responses, log, running, history>>

\* The event loop runs root(): it runs a handler only when no other
\* handler holds it.
Root ==
    /\ probe.pc = "submitted"
    /\ probe.path = "/"
    /\ running = 0
    /\ probe' = [probe EXCEPT
           !.pc = "done",
           !.responses = Append(@, Respond(root)),
           !.log = Append(@, LogEntry("INFO", "main", <<LogRootAccessed>>))]
    /\ UNCHANGED <<config, pc, request, validated, raised, adapterCalls,
                   converseCalls, converseResults, adapterResults,
                   responses, log, running, history>>

\* The event loop runs health().
Health ==
    /\ probe.pc = "submitted"
    /\ probe.path = "/health"
    /\ running = 0
    /\ \E timestamp \in Timestamps :
          probe' = [probe EXCEPT
              !.pc = "done",
              !.responses = Append(@, Respond(health(timestamp))),
              !.log = Append(@, LogEntry("INFO", "main",
                                         <<LogHealthAccessed>>))]
    /\ UNCHANGED <<config, pc, request, validated, raised, adapterCalls,
                   converseCalls, converseResults, adapterResults,
                   responses, log, running, history>>

NextGet ==
    \/ \E r \in Requests :
           \/ Submit(r)
           \/ Validate(r)
           \/ ProcessCall(r)
           \/ ProcessReturn(r)
    \/ SubmitGet
    \/ Root
    \/ Health

SpecGet == Init /\ [][NextGet]_vars

----------------------------------------------------------------------------
\* A client that sends one request after the other: when a request has
\* been answered the next one can be sent in its place, and the service
\* has the earlier exchanges behind it.

\* The response without the measured time.
WithoutTime(resp) ==
    IF resp.status_code = HTTP_200_OK
          /\ "metadata" \in DOMAIN resp.content
    THEN [resp EXCEPT !.content.metadata.processing_time_ms = 0]
    ELSE resp

\* What was received for request r, what the adapter returned for it and
\* what was sent.
Exchange(r) ==
    [request |-> request[r],
     adapterResults |-> adapterResults[r],
     responses |-> [i \in 1..Len(responses[r]) |->
                       WithoutTime(responses[r][i])]]

\* The earlier exchanges that are kept in history: those of "organize" /
\* "Clean up my inbox" for which the provider call failed or returned
\* "1. Clean inbox".
ScenarioRequest ==
    [task |-> Str(StrOrganize), content |-> Str(StrCleanInbox),
     content_type |-> Header(APPLICATION_JSON)]

Recorded(r) ==
    /\ request[r] = ScenarioRequest
    /\ converseResults[r] # <<>>
    /\ converseResults[r][1] \in
           {Raise(Exc("ClientError", ErrThrottling)),
            Return(WellFormed(RespCleanInbox))}

\* Request r has been answered and the client sends its next request.
Reuse(r) ==
    /\ pc[r] = "done"
    /\ history' = IF Recorded(r) THEN history \cup {Exchange(r)}
                  ELSE history
    /\ pc' = [pc EXCEPT ![r] = "idle"]
    /\ request' = [request EXCEPT ![r] = NoRequest]
    /\ validated' = [validated EXCEPT ![r] = NoModel]
    /\ raised' = [raised EXCEPT ![r] = <<>>]
    /\ adapterCalls' = [adapterCalls EXCEPT ![r] = <<>>]
    /\ converseCalls' = [converseCalls EXCEPT ![r] = <<>>]
    /\ converseResults' = [converseResults EXCEPT ![r] = <<>>]
    /\ adapterResults' = [adapterResults EXCEPT ![r] = <<>>]
    /\ responses' = [responses EXCEPT ![r] = <<>>]
    /\ log' = [log EXCEPT ![r] = <<>>]
    /\ UNCHANGED <<config, running, probe>>

NextReuse ==
    \E r \in Requests :
        \/ Submit(r)
        \/ Validate(r)
        \/ ProcessCall(r)
        \/ ProcessReturn(r)
        \/ Reuse(r)

SpecReuse == Init /\ [][NextReuse]_vars

----------------------------------------------------------------------------
\* The start of the process: main.py imports config and bedrock_client,
\* whose module-level statements build settings and bedrock_client from
\* the environment the process was started in.

\* Before config and bedrock_client are imported their names are unbound.
Unbound == [unbound |-> TRUE]

\* The environments the process is started in: the token unset, empty,
\* blank or set under either spelling of its name; PORT unset, numeric or
\* not; the other variables unset or set under upper-case or lower-case
\* names, the log level to DEBUG or to "error".
StartupEnvironments ==
    {token @@ port @@ others :
        token \in {<<>>,
                   (AWS_BEARER_TOKEN_BEDROCK :> <<>>),
                   (AWS_BEARER_TOKEN_BEDROCK :> TokenSpaces),
                   (AWS_BEARER_TOKEN_BEDROCK :> TokenA),
                   (field_aws_bearer_token_bedrock :> TokenB)},
        port \in {<<>>,
                  (PORT :> Port9000),
                  (PortMixedCase :> Port3000),
                  (PORT :> PortNotANumber)},
        others \in {<<>>,
                    (AWS_REGION :> RegionEuWest1)
                        @@ (BEDROCK_MODEL_ID :> ModelM1)
                        @@ (LOG_LEVEL :> LogLevelDebug)
                        @@ (HOST :> Host127),
                    (field_aws_region :> RegionEuWest1)
                        @@ (field_log_level :> LogLevelDebug),
                    (LOG_LEVEL :> LogLevelErrorLowerCase)}}

\* The process has been started and nothing has been imported.
InitStartup ==
    /\ \E env \in StartupEnvironments :
          /\ startup = [pc |-> "importing", env |-> env, raised |-> <<>>]
          /\ environ = env
    /\ settings = Unbound
    /\ bedrock_client = Unbound
    /\ pc = [r \in Requests |-> "idle"]
    /\ request = [r \in Requests |-> NoRequest]
    /\ validated = [r \in Requests |-> NoModel]
    /\ raised = [r \in Requests |-> <<>>]
    /\ adapterCalls = [r \in Requests |-> <<>>]
    /\ converseCalls = [r \in Requests |-> <<>>]
    /\ converseResults = [r \in Requests |-> <<>>]
    /\ adapterResults = [r \in Requests |-> <<>>]
    /\ responses = [r \in Requests |-> <<>>]
    /\ log = [r \in 0..MaxRequests |-> <<>>]
    /\ running = 0
    /\ probe = NoProbe
    /\ history = {}

\* The imports of main.py: settings = Settings() and, when that returns,
\* bedrock_client = BedrockClient().  An exception of Settings() is caught
\* nowhere and ends the process.
Import ==
    /\ startup.pc = "importing"
    /\ \E built \in {Settings(environ)} :
          IF built.kind = "raise"
          THEN /\ startup' = [startup EXCEPT !.pc = "failed",
                                             !.raised = <<built.exc>>]
               /\ UNCHANGED <<settings, bedrock_client, environ, log>>
          ELSE /\ startup' = [startup EXCEPT !.pc = "serving"]
               /\ settings' = built.value
               /\ bedrock_client' = BedrockClient(built.value)
               /\ environ' = Environ(environ, built.value)
               /\ log' = [log EXCEPT
                             ![0] = BedrockClientLog(
                                        BedrockClient(built.value))]
    /\ UNCHANGED <<pc, request, validated, raised, adapterCalls,
                   converseCalls, converseResults, adapterResults,
                   responses, running, probe, history>>

NextStartup ==
    \/ Import
    \/ \E r \in Requests :
          \/ Submit(r)
          \/ Validate(r)
          \/ ProcessCall(r)
          \/ ProcessReturn(r)

SpecStartup == InitStartup /\ [][NextStartup]_vars

----------------------------------------------------------------------------
\* Scheduling: the event loop runs a handler that is ready, and the
\* provider call of a request returns or raises.

\* The states in which a handler step of request r can be taken: the
\* first two conjuncts of Validate, of ProcessCall and of ProcessReturn;
\* the rest of each action puts no further condition on the state.
ValidateReady(r) == pc[r] = "submitted" /\ running = 0

ProcessReady(r) == pc[r] = "process" /\ running = r

ConverseReady(r) == pc[r] = "converse" /\ running = r

\* Weak fairness of each handler step, WF_vars(A) written out as
\* []<>~ENABLED <<A>>_vars \/ []<><<A>>_vars with the enabling condition
\* given by the state predicates above.
FairClock ==
    \A r \in Requests :
        /\ \/ []<>(~ValidateReady(r))
           \/ []<><<Validate(r)>>_vars
        /\ \/ []<>(~ProcessReady(r))
           \/ []<><<ProcessCall(r)>>_vars
        /\ \/ []<>(~ConverseReady(r))
           \/ []<><<ProcessReturn(r) \/ ProcessReturnClockSetBack(r)>>_vars

SpecClockFair == SpecClock /\ FairClock

----------------------------------------------------------------------------
\* Properties.

\* Request r was answered.
Answered(r) == pc[r] = "done" /\ Len(responses[r]) >= 1

\* The adapter returned a result for request r, and it has success = s.
AdapterReturned(r, s) ==
    /\ pc[r] = "done"
    /\ Len(adapterResults[r]) = 1
    /\ adapterResults[r][1].kind = "return"
    /\ adapterResults[r][1].value.success = s

IsWellFormed(response) ==
    \E t \in ResponseTexts, u \in ResponseTexts :
        response = WellFormed(t) \/ response = TwoElements(t, u)

ProviderSucceeded(r) ==
    /\ Len(converseResults[r]) = 1
    /\ converseResults[r][1].kind = "return"
    /\ IsWellFormed(converseResults[r][1].value)

\* Both fields are strings whose length after trimming is within bounds.
TrimmedInBounds(req) ==
    /\ req.task.kind = "str"
    /\ req.content.kind = "str"
    /\ StrLen(strip(req.task.val)) \in 1..100
    /\ StrLen(strip(req.content.val)) \in 1..10000

\* Both fields are strings that are not whitespace-only and whose length as
\* submitted is within bounds.
SubmittedInBounds(req) ==
    /\ req.task.kind = "str"
    /\ req.content.kind = "str"
    /\ StrLen(req.task.val) \in 1..100
    /\ StrLen(req.content.val) \in 1..10000
    /\ strip(req.task.val) # <<>>
    /\ strip(req.content.val) # <<>>

FieldOffending(f, max_length) ==
    \/ f.kind # "str"
    \/ StrLen(f.val) = 0
    \/ strip(f.val) = <<>>
    \/ StrLen(f.val) > max_length

\* C3: every JSON body with an offending task or content is answered 422
\* with error.type "validation_error", and error.details names each
\* offending field.
C3_ValidationErrorNamesFields ==
    \A r \in Requests :
        (/\ Answered(r)
         /\ BodyDecodedAsJson(request[r])
         /\ \/ FieldOffending(request[r].task, 100)
            \/ FieldOffending(request[r].content, 10000))
        => LET resp == responses[r][1]
           IN /\ Len(responses[r]) = 1
              /\ resp.status_code = 422
              /\ DOMAIN resp.content = {"error"}
              /\ resp.content.error.type = "validation_error"
              /\ FieldOffending(request[r].task, 100)
                    => Contains(resp.content.error.details, S(<<"t", "a", "s", "k">>))
              /\ FieldOffending(request[r].content, 10000)
                    => Contains(resp.content.error.details,
                                S(<<"c", "o", "n", "t", "e", "n", "t">>))

\* C3 witness: task and content both empty, both named in the details.
C3_Witness ==
    \E r \in Requests :
        /\ Answered(r)
        /\ request[r].task = Str(<<>>)
        /\ request[r].content = Str(<<>>)
        /\ responses[r][1].status_code = 422
        /\ Contains(responses[r][1].content.error.details, S(<<"t", "a", "s", "k">>))
        /\ Contains(responses[r][1].content.error.details,
                    S(<<"c", "o", "n", "t", "e", "n", "t">>))

\* C4: the adapter is called only for requests whose body was decoded and
\* whose task and content are not offending; a request answered 422 has
\* no adapter call.
C4_NoAdapterCallOnInvalid ==
    \A r \in Requests :
        /\ Len(adapterCalls[r]) > 0 =>
              /\ BodyDecodedAsJson(request[r])
              /\ ~FieldOffending(request[r].task, 100)
              /\ ~FieldOffending(request[r].content, 10000)
        /\ (Answered(r) /\ responses[r][1].status_code = 422) =>
              /\ adapterCalls[r] = <<>>
              /\ converseCalls[r] = <<>>

\* C4 witness: a whitespace-only content was answered 422 and no adapter
\* call was made.
C4_Witness ==
    \E r \in Requests :
        /\ Answered(r)
        /\ request[r].content = Str(S(<<" ", "\n", "\t">>))
        /\ responses[r][1].status_code = 422
        /\ adapterCalls[r] = <<>>

\* The handler of request r called the adapter.
AdapterCalled(r) == request[r] # NoRequest /\ Len(adapterCalls[r]) > 0

\* C5: when the task of an accepted request is "gtd-clarification", the
\* prompt passed to the adapter, and sent to the provider, is the content
\* of the request (the submitted content, trimmed) and nothing else.
C5_GtdPromptIsContent ==
    \A r \in Requests :
        (AdapterCalled(r) /\ validated[r].task = GTD_CLARIFICATION) =>
            /\ adapterCalls[r] = <<validated[r].content>>
            /\ validated[r].content = strip(request[r].content.val)
            /\ converseCalls[r][1].messages[1].content[1].text
                   = strip(request[r].content.val)

\* C5 witness: "gtd-clarification" with "Clean up my inbox" was forwarded
\* as submitted.
C5_Witness ==
    \E r \in Requests :
        /\ AdapterCalled(r)
        /\ request[r].task = Str(GTD_CLARIFICATION)
        /\ request[r].content = Str(StrCleanInbox)
        /\ adapterCalls[r] = <<request[r].content.val>>

\* C6: when the task of an accepted request is not "gtd-clarification",
\* the prompt is "Task: <task>\nContent to process: <content>\n\nPlease
\* process the above content according to the specified task."; it
\* contains the task and the content and is not the bare content.
C6_TemplatePrompt ==
    \A r \in Requests :
        (AdapterCalled(r) /\ validated[r].task # GTD_CLARIFICATION) =>
            LET task == strip(request[r].task.val)
                content == strip(request[r].content.val)
                prompt == adapterCalls[r][1]
            IN /\ Len(adapterCalls[r]) = 1
               /\ prompt = CatAll(<<TemplateTask, task, TemplateContent,
                                    content, TemplateTail>>)
               /\ Contains(prompt, task)
               /\ Contains(prompt, content)
               /\ prompt # content
               /\ converseCalls[r][1].messages[1].content[1].text = prompt

\* C6 witness: "organize" / "Clean up my inbox" was sent in the template.
C6_Witness ==
    \E r \in Requests :
        /\ AdapterCalled(r)
        /\ request[r].task = Str(StrOrganize)
        /\ request[r].content = Str(StrCleanInbox)
        /\ adapterCalls[r][1] =
                S(<<"T", "a", "s", "k", ":", " ", "o", "r", "g", "a", "n",
                    "i", "z", "e", "\n", "C", "o", "n", "t", "e", "n", "t",
                    " ", "t", "o", " ", "p", "r", "o", "c", "e", "s", "s",
                    ":", " ", "C", "l", "e", "a", "n", " ", "u", "p", " ",
                    "m", "y", " ", "i", "n", "b", "o", "x", "\n", "\n",
                    "P", "l", "e", "a", "s", "e", " ", "p", "r", "o", "c",
                    "e", "s", "s", " ", "t", "h", "e", " ", "a", "b", "o",
                    "v", "e", " ", "c", "o", "n", "t", "e", "n", "t", " ",
                    "a", "c", "c", "o", "r", "d", "i", "n", "g", " ", "t",
                    "o", " ", "t", "h", "e", " ", "s", "p", "e", "c", "i",
                    "f", "i", "e", "d", " ", "t", "a", "s", "k", ".">>)

\* C7: when the adapter returns success = false, the response is 503 with
\* error.type "http_error", error.message "HTTP 503" and error.details
\* containing the adapter's error string; it is never a 200.
C7_AdapterFailureIs503 ==
    \A r \in Requests :
        AdapterReturned(r, FALSE) =>
            LET resp == responses[r][1]
            IN /\ Len(responses[r]) = 1
               /\ resp.status_code # 200
               /\ resp.status_code = 503
               /\ DOMAIN resp.content = {"error"}
               /\ resp.content.error.type = "http_error"
               /\ resp.content.error.message = S(<<"H", "T", "T", "P", " ", "5", "0", "3">>)
               /\ Contains(resp.content.error.details,
                           adapterResults[r][1].value.error)

\* C7 witness: the provider raised "An unspecified error occurred" and the
\* request was answered 503 with that text in the details.
C7_Witness ==
    \E r \in Requests :
        /\ AdapterReturned(r, FALSE)
        /\ converseResults[r][1] = Raise(Exc("BotoCoreError", ErrUnspecified))
        /\ responses[r][1].status_code = 503
        /\ responses[r][1].content.error.details =
                S(<<"A", "I", " ", "s", "e", "r", "v", "i", "c", "e", " ",
                    "e", "r", "r", "o", "r", ":", " ", "A", "n", " ", "u",
                    "n", "s", "p", "e", "c", "i", "f", "i", "e", "d", " ",
                    "e", "r", "r", "o", "r", " ", "o", "c", "c", "u", "r",
                    "r", "e", "d">>)

\* str() of the exception raised while reading a malformed response.
ExpectedParseError(response) ==
    CASE response = EmptyDict -> ErrKeyOutput
      [] response = Dict([output |-> None]) -> ErrNoneType
      [] response = Dict([output |-> Dict([message |-> EmptyDict])])
            -> ErrKeyContent
      [] response = Dict([output |-> Dict([message |->
                         Dict([content |-> List(<<>>)])])])
            -> ErrIndex
      [] response = Dict([output |-> Dict([message |->
                         Dict([content |-> List(<<EmptyDict>>)])])])
            -> ErrKeyText

\* C8: process_request never raises; when the provider raises or returns
\* a malformed response, the result is exactly success = false, error =
\* str() of the exception and model = the configured model identifier,
\* with no response field.
C8_AdapterNeverRaises ==
    \A r \in Requests :
        \A i \in 1..Len(adapterResults[r]) :
            LET converse == converseResults[r][i]
                adapter == adapterResults[r][i]
            IN /\ adapter.kind = "return"
               /\ converse.kind = "raise" =>
                      adapter.value =
                          [success |-> FALSE, error |-> converse.exc.text,
                           model |-> settings.bedrock_model_id]
               /\ (converse.kind = "return"
                      /\ ~IsWellFormed(converse.value)) =>
                      /\ "response" \notin DOMAIN adapter.value
                      /\ adapter.value =
                             [success |-> FALSE,
                              error |-> ExpectedParseError(converse.value),
                              model |-> settings.bedrock_model_id]

\* C8 witness: the response of the unit test, whose message has no
\* content, gave a failure result with the text of the KeyError.
C8_Witness ==
    \E r \in Requests :
        /\ Len(adapterResults[r]) = 1
        /\ converseResults[r][1] =
               Return(Dict([output |-> Dict([message |-> EmptyDict])]))
        /\ adapterResults[r][1].kind = "return"
        /\ adapterResults[r][1].value.success = FALSE
        /\ adapterResults[r][1].value.error = S(<<"'", "c", "o", "n", "t", "e", "n", "t", "'">>)

\* C9: for a well-formed provider response the result is exactly
\* success = true, response = the text of the first content element and
\* model = the configured model identifier, with no error field.
C9_AdapterSuccess ==
    \A r \in Requests :
        \A i \in 1..Len(adapterResults[r]) :
            \A t \in ResponseTexts, u \in ResponseTexts :
                (\/ converseResults[r][i] = Return(WellFormed(t))
                 \/ converseResults[r][i] = Return(TwoElements(t, u)))
                => /\ adapterResults[r][i].kind = "return"
                   /\ "error" \notin DOMAIN adapterResults[r][i].value
                   /\ adapterResults[r][i].value =
                          [success |-> TRUE, response |-> t,
                           model |-> settings.bedrock_model_id]

\* C9 witness: a response with two content elements gave the text of the
\* first one.
C9_Witness ==
    \E r \in Requests :
        /\ Len(adapterResults[r]) = 1
        /\ converseResults[r][1] =
               Return(TwoElements(RespCleanInbox, RespPadded))
        /\ adapterResults[r][1].kind = "return"
        /\ adapterResults[r][1].value.success
        /\ adapterResults[r][1].value.response = RespCleanInbox

\* Request r is a POST /process request that passed validation and the
\* Content-Type check, and its handler has reached the adapter call.
Accepted(r) ==
    /\ pc[r] \in {"converse", "done"}
    /\ BodyDecodedAsJson(request[r])
    /\ ContentTypeAccepted(request[r])
    /\ ~FieldOffending(request[r].task, 100)
    /\ ~FieldOffending(request[r].content, 10000)

\* C10: every process_request call makes exactly one converse() call, whose
\* messages are one user message carrying the prompt unchanged, also after
\* a failure and for the empty prompt; every accepted POST /process
\* request makes exactly one adapter call.
C10_OneCallPerRequest ==
    \A r \in Requests :
        /\ Len(adapterCalls[r]) <= 1
        /\ Len(converseCalls[r]) = Len(adapterCalls[r])
        /\ Len(converseResults[r]) <= Len(converseCalls[r])
        /\ \A i \in 1..Len(converseCalls[r]) :
              converseCalls[r][i] =
                  [modelId |-> settings.bedrock_model_id,
                   messages |-> <<[role |-> "user",
                                   content |-> <<[text |-> adapterCalls[r][1]]>>]>>]
        /\ Accepted(r) => Len(adapterCalls[r]) = 1
        /\ pc[r] \in {"direct", "returned"} => Len(adapterCalls[r]) = 1

\* C10 witness: a direct call with the empty prompt failed and had made a
\* single converse() call with the empty text.
C10_Witness ==
    \E r \in Requests :
        /\ pc[r] = "returned"
        /\ adapterCalls[r] = << <<>> >>
        /\ Len(converseCalls[r]) = 1
        /\ converseCalls[r][1].messages[1].content[1].text = <<>>
        /\ adapterResults[r][1].kind = "return"
        /\ ~adapterResults[r][1].value.success

----------------------------------------------------------------------------
\* The Content-Type header of the request is missing or does not begin with
\* "application/json".
NotJsonContentType(req) ==
    \/ ~req.content_type.present
    \/ ~startswith(req.content_type.val, APPLICATION_JSON)

\* C11: a POST /process request whose Content-Type header is missing or
\* does not begin with "application/json" never reaches the adapter: no
\* process_request call and no converse() call is made for it, and the
\* response it gets is the 415 or the 422 rejection.
C11_NoAdapterCallOnWrongContentType ==
    \A r \in Requests :
        (pc[r] # "idle" /\ NotJsonContentType(request[r])) =>
            /\ adapterCalls[r] = <<>>
            /\ converseCalls[r] = <<>>
            /\ adapterResults[r] = <<>>
            /\ Answered(r) =>
                   /\ Len(responses[r]) = 1
                   /\ responses[r][1].status_code \in {415, 422}

\* C11 witness: "organize" / "Clean up my inbox" sent without a
\* Content-Type header is answered 415 with no adapter call.
C11_Witness ==
    \E r \in Requests :
        /\ Answered(r)
        /\ request[r].content_type = NoHeader
        /\ request[r].task = Str(StrOrganize)
        /\ request[r].content = Str(StrCleanInbox)
        /\ responses[r][1].status_code = 415
        /\ adapterCalls[r] = <<>>


\* C12: the Content-Type check precedes field validation.  Every answered
\* POST /process request whose Content-Type does not begin with
\* "application/json" is answered 415 with error.type "http_error",
\* whether or not its task and content are valid, and so never 422.
C12_ContentTypeCheckedFirst ==
    \A r \in Requests :
        (Answered(r) /\ NotJsonContentType(request[r])) =>
            /\ responses[r][1].status_code = 415
            /\ responses[r][1].content.error.type = "http_error"


\* C13: every exception other than an HTTPException raised in the body of
\* process() is answered 200 with status "error", result "Error processing
\* request: " followed by the text of the exception, metadata.model the
\* configured model id and metadata.tokens_used 0.
C13_HandlerExceptionIs200 ==
    \A r \in Requests :
        Answered(r) =>
            \A i \in 1..Len(raised[r]) :
                raised[r][i].type # "HTTPException" =>
                    LET resp == responses[r][1]
                    IN /\ Len(responses[r]) = 1
                       /\ resp.status_code = 200
                       /\ DOMAIN resp.content =
                              {"result", "status", "metadata"}
                       /\ resp.content.status = "error"
                       /\ resp.content.result =
                              Cat(ErrorProcessingPrefix, raised[r][i].text)
                       /\ resp.content.metadata.model =
                              settings.bedrock_model_id
                       /\ resp.content.metadata.tokens_used = 0


\* The exception that left the body of process(), if one did: the last
\* one raised in it.
Escaped(r) == raised[r][Len(raised[r])]

\* A ValueError was raised in the body of process() for request r
\* (pydantic's ValidationError is a subclass of ValueError).
IsValueError(exc) == exc.type \in {"ValueError", "ValidationError"}

ProviderError(r) ==
    IF converseResults[r] = <<>> THEN <<>>
    ELSE IF converseResults[r][1].kind = "raise"
    THEN <<converseResults[r][1].exc>>
    ELSE LET result == ExtractText(converseResults[r][1].value)
         IN IF result.kind = "raise" THEN <<result.exc>> ELSE <<>>

OtherExceptions(r) ==
    {ProviderError(r)[i] : i \in 1..Len(ProviderError(r))}
    \cup {e \in {raised[r][i] : i \in 1..Len(raised[r])} :
              e.type # "HTTPException" /\ ~IsValueError(e)}

\* The response of general_exception_handler.
InternalError ==
    JSONResponse(500, ErrorResponse(ErrorDetail("internal_error",
                          UnexpectedErrorMessage, InternalErrorDetails)))

UnhandledExceptions ==
    {Exc(type, text) :
        type \in {"KeyError", "IndexError", "TypeError", "ClientError",
                  "BotoCoreError", "RuntimeError"},
        text \in {ErrThrottling, ErrIndex, TokenA}}

IsProcessResponse(content) ==
    /\ DOMAIN content = {"result", "status", "metadata"}
    /\ content.status \in {"success", "error"}
    /\ DOMAIN content.metadata = {"model", "tokens_used", "processing_time_ms"}

\* The content has the ErrorResponse shape.
IsErrorResponse(content) ==
    /\ DOMAIN content = {"error"}
    /\ DOMAIN content.error = {"type", "message", "details"}

\* Every response to POST /process is 200 with the ProcessResponse shape
\* or has one of the given statuses with the ErrorResponse shape.
ResponsesWithin(statuses) ==
    \A r \in Requests :
        \A i \in 1..Len(responses[r]) :
            LET resp == responses[r][i]
            IN \/ resp.status_code = 200 /\ IsProcessResponse(resp.content)
               \/ resp.status_code \in statuses
                      /\ IsErrorResponse(resp.content)

\* C16 as stated: every response to POST /process is 200 with the
\* ProcessResponse shape or one of 422, 503, 400, 500 with the
\* ErrorResponse shape.
C16_StatusCodes == ResponsesWithin({422, 503, 400, 500})

\* C16 amended: every response to POST /process is 200 with the
\* ProcessResponse shape or one of 415, 422, 503, 400, 500 with the
\* ErrorResponse shape.
C16_StatusCodesWith415 == ResponsesWithin({415, 422, 503, 400, 500})

\* C16 witness: a request with valid fields and no Content-Type header was
\* answered 415 with the ErrorResponse shape.
C16_Witness ==
    \E r \in Requests :
        /\ Answered(r)
        /\ ~request[r].content_type.present
        /\ raised[r] = <<HTTPException(415, ContentTypeDetail)>>
        /\ responses[r][1].status_code = 415
        /\ IsErrorResponse(responses[r][1].content)


\* C17: in every ErrorResponse sent, error.type is one of validation_error,
\* http_error, value_error, internal_error; validation_error comes with
\* status 422, value_error with 400, internal_error with 500, and
\* http_error with the status code of the HTTPException the handler
\* raised, 415 or 503, and the message "HTTP " followed by that code.
C17_ErrorTypeDeterminesStatus ==
    \A r \in Requests :
        \A i \in 1..Len(responses[r]) :
            LET resp == responses[r][i]
                type == resp.content.error.type
            IN "error" \in DOMAIN resp.content =>
                   /\ type \in {"validation_error", "http_error",
                                "value_error", "internal_error"}
                   /\ type = "validation_error" => resp.status_code = 422
                   /\ type = "value_error" => resp.status_code = 400
                   /\ type = "internal_error" => resp.status_code = 500
                   /\ type = "http_error" =>
                          /\ resp.status_code \in {415, 503}
                          /\ raised[r] # <<>>
                          /\ Escaped(r).type = "HTTPException"
                          /\ resp.status_code = Escaped(r).status_code
                          /\ resp.content.error.message =
                                 Cat(HttpPrefix,
                                     IntToStr(Escaped(r).status_code))

\* C17 witness: the 503 raised after an adapter failure is answered
\* "http_error" with message "HTTP 503".
C17_Witness ==
    \E r \in Requests :
        /\ Answered(r)
        /\ AdapterReturned(r, FALSE)
        /\ Escaped(r).type = "HTTPException"
        /\ Escaped(r).status_code = 503
        /\ responses[r][1].status_code = 503
        /\ responses[r][1].content.error.type = "http_error"
        /\ responses[r][1].content.error.message =
               S(<<"H", "T", "T", "P", " ", "5", "0", "3">>)


\* The texts of a response body.
BodyTexts(content) ==
    IF "error" \in DOMAIN content
    THEN {content.error.message, content.error.details}
    ELSE {content.result, content.metadata.model}

\* The texts sent to clients.
ReturnedTexts ==
    UNION {UNION {BodyTexts(responses[r][i].content) :
                      i \in 1..Len(responses[r])} : r \in Requests}

\* The texts passed to the loggers, at startup and for the requests.
LoggedTexts ==
    UNION {UNION {{log[r][i].parts[k] : k \in 1..Len(log[r][i].parts)} :
                      i \in 1..Len(log[r])} : r \in 0..MaxRequests}

\* The settings of a service started with token t and otherwise the same
\* environment.
SettingsWithToken(t) ==
    [settings EXCEPT !.aws_bearer_token_bedrock = strip(t)]

\* What the service started with token t sends and logs for request r,
\* given the same request and the same outcome of the provider call.
SameWithToken(r, t) ==
    LET s == SettingsWithToken(t)
        client == BedrockClient(s)
        converse == converseResults[r][1]
        adapter == process_request(client, converse)
    IN /\ adapterResults[r] = <<adapter>>
       /\ \E ms \in SetBackMs \cup ElapsedMs,
             ms2 \in SetBackMs \cup ElapsedMs :
              LET tried == ProcessTry(validated[r], adapter, ms)
                  outcome == ProcessExcept(s, tried, ms2)
              IN /\ responses[r] = <<Respond(outcome)>>
                 /\ log[r] = ProcessAccessedLog(validated[r])
                                 \o process_requestLog(client, converse)
                                 \o ProcessLog(adapter, tried, ms)
                                 \o HandlerLog(outcome)

C19_OthersProgressDuringProviderCall ==
    \A r \in Requests :
        pc[r] = "converse" =>
            /\ probe.pc = "submitted" => ENABLED (Root \/ Health)
            /\ \A q \in Requests \ {r} :
                   pc[q] = "submitted" => ENABLED Validate(q)


\* Two exchanges of the same request with the same adapter result.
SameInputs(x, y) ==
    /\ x.request = y.request
    /\ x.adapterResults = y.adapterResults

VariablesOf(env, field) == {n \in DOMAIN env : lower(n) = field}

\* The token is absent from env, empty or whitespace-only.
TokenUnusable(env) ==
    \A n \in VariablesOf(env, field_aws_bearer_token_bedrock) :
        \A i \in 1..Len(env[n]) : env[n][i].c \in Whitespace

\* C21: once the imports have run with the token absent, empty or
\* whitespace-only the process has ended with a ValidationError whose entry
\* for aws_bearer_token_bedrock names AWS_BEARER_TOKEN_BEDROCK, no
\* BedrockClient exists and nothing was logged; no request is taken unless
\* the startup succeeded; and after a startup that succeeded the token of
\* settings is the variable's value without its leading and trailing
\* whitespace, and is not empty.
C21_StartupFailsWithoutToken ==
    /\ (startup.pc # "importing" /\ TokenUnusable(startup.env)) =>
           /\ startup.pc = "failed"
           /\ Len(startup.raised) = 1
           /\ startup.raised[1].type = "ValidationError"
           /\ \E i \in 1..Len(startup.raised[1].errors) :
                  /\ startup.raised[1].errors[i].loc
                         = <<S(field_aws_bearer_token_bedrock)>>
                  /\ Contains(startup.raised[1].errors[i].msg,
                              S(AWS_BEARER_TOKEN_BEDROCK))
           /\ settings = Unbound
           /\ bedrock_client = Unbound
           /\ environ = startup.env
           /\ log[0] = <<>>
    /\ startup.pc # "serving" =>
           /\ \A r \in Requests : pc[r] = "idle" /\ responses[r] = <<>>
           /\ \A r \in Requests : ~ENABLED Submit(r)
    /\ startup.pc = "failed" => ~ENABLED NextStartup
    /\ startup.pc = "serving" =>
           /\ settings.aws_bearer_token_bedrock # <<>>
           /\ settings.aws_bearer_token_bedrock[1].c \notin Whitespace
           /\ settings.aws_bearer_token_bedrock[
                  Len(settings.aws_bearer_token_bedrock)].c \notin Whitespace
           /\ \E n \in VariablesOf(startup.env,
                                   field_aws_bearer_token_bedrock) :
                  /\ Contains(startup.env[n],
                              settings.aws_bearer_token_bedrock)
                  /\ \E lead \in 0..StrLen(startup.env[n]) :
                         /\ Take(Drop(startup.env[n], lead),
                                 StrLen(settings.aws_bearer_token_bedrock))
                                = settings.aws_bearer_token_bedrock
                         /\ \A i \in 1..Len(startup.env[n]) :
                                (startup.env[n][i].e <= lead
                                 \/ RunStart(startup.env[n], i) >=
                                        lead + StrLen(
                                            settings.aws_bearer_token_bedrock))
                                    => startup.env[n][i].c \in Whitespace

\* C21 witness: the process was started with a token of three spaces and
\* its imports have ended with the ValidationError.
C21_Witness ==
    /\ startup.pc = "failed"
    /\ AWS_BEARER_TOKEN_BEDROCK \in DOMAIN startup.env
    /\ startup.env[AWS_BEARER_TOKEN_BEDROCK] = TokenSpaces
    /\ Len(startup.raised[1].errors) = 1


\* What a str setting is to be for the environment env: the value of the
\* variable of the field's name in any letter case, otherwise the default.
FromEnvironment(env, field, value, default) ==
    /\ \A n \in VariablesOf(env, field) : value = env[n]
    /\ VariablesOf(env, field) = {} => value = default

\* The characters of v are decimal digits, and there is at least one.
Numeric(v) ==
    /\ v # <<>>
    /\ \A i \in 1..Len(v) :
           v[i].c \in {"0", "1", "2", "3", "4", "5", "6", "7", "8", "9"}

\* C22: once the imports have run with a usable token, the startup failed
\* exactly when a PORT variable (in any letter case) is not numeric;
\* otherwise region, model id, log level and host are the values of their
\* variables in any letter case or else "us-east-1", the default model id,
\* "INFO" and "localhost", and the port is an integer: the one PORT
\* writes, or 8000.
C22_SettingsFromEnvironment ==
    (startup.pc # "importing" /\ ~TokenUnusable(startup.env)) =>
        /\ startup.pc = "failed" <=>
               \E n \in VariablesOf(startup.env, field_port) :
                   ~Numeric(startup.env[n])
        /\ startup.pc = "serving" =>
               /\ FromEnvironment(startup.env, field_aws_region,
                                  settings.aws_region, DefaultRegion)
               /\ FromEnvironment(startup.env, field_bedrock_model_id,
                                  settings.bedrock_model_id, DefaultModelId)
               /\ FromEnvironment(startup.env, field_log_level,
                                  settings.log_level, DefaultLogLevel)
               /\ FromEnvironment(startup.env, field_host,
                                  settings.host, DefaultHost)
               /\ settings.port \in Int
               /\ FromEnvironment(startup.env, field_port,
                                  IntToStr(settings.port),
                                  IntToStr(8000))

\* C22 witness: the service runs with the port of a variable "Port", the
\* region and the log level of lower-case variables, and the default host
\* and model id.
C22_Witness ==
    /\ startup.pc = "serving"
    /\ PortMixedCase \in DOMAIN startup.env
    /\ settings.port = 3000
    /\ field_aws_region \in DOMAIN startup.env
    /\ settings.aws_region = RegionEuWest1
    /\ settings.log_level = LogLevelDebug
    /\ settings.host = DefaultHost
    /\ settings.bedrock_model_id = DefaultModelId


\* C23: every response to GET /health is 200 with status "healthy",
\* service "fastapi-bedrock-service" and version "1.0.0"; the step of
\* health() leaves the calls of the adapter and of the provider and their
\* results as they are; and whatever the /process requests and the
\* provider have done, a GET /health that is waiting is answered as soon
\* as the event loop is free.
C23_HealthAlwaysHealthy ==
    /\ []((probe.path = "/health" /\ probe.pc = "done") =>
              /\ Len(probe.responses) = 1
              /\ probe.responses[1].status_code = 200
              /\ probe.responses[1].content.status = StrHealthy
              /\ probe.responses[1].content.service = StrServiceName
              /\ probe.responses[1].content.version = StrVersion
              /\ probe.responses[1].content.timestamp \in Timestamps)
    /\ []((probe.path = "/health" /\ probe.pc = "submitted"
               /\ running = 0) => ENABLED Health)
    /\ [][Health => UNCHANGED <<adapterCalls, converseCalls,
                                converseResults, adapterResults>>]_vars

\* C23 witness: GET /health has been answered 200 "healthy" in a run in
\* which the provider call of a /process request failed and the request
\* was answered 503.
C23_Witness ==
    /\ probe.path = "/health"
    /\ probe.pc = "done"
    /\ probe.responses[1].status_code = 200
    /\ probe.responses[1].content.status = StrHealthy
    /\ \E r \in Requests :
           /\ Answered(r)
           /\ responses[r][1].status_code = 503
           /\ converseResults[r][1].kind = "raise"


\* C24: in every 200 response of POST /process tokens_used and
\* processing_time_ms are integers that are at least 0, with status
\* "success" and with status "error", also when the clock was set back
\* between the readings of the time.
C24_MetadataNonNegative ==
    \A r \in Requests :
        \A i \in 1..Len(responses[r]) :
            responses[r][i].status_code = 200 =>
                /\ responses[r][i].content.status \in {"success", "error"}
                /\ responses[r][i].content.metadata.tokens_used \in Nat
                /\ responses[r][i].content.metadata.processing_time_ms
                       \in Nat

\* C24 witness: the clock was set back while the provider was called, the
\* metadata of the "success" response was refused, and the request was
\* answered 200 with status "error".
C24_Witness ==
    \E r \in Requests :
        /\ Answered(r)
        /\ responses[r][1].status_code = 200
        /\ responses[r][1].content.status = "error"
        /\ responses[r][1].content.metadata.tokens_used = 0
        /\ responses[r][1].content.metadata.processing_time_ms >= 0
        /\ raised[r] # <<>>
        /\ raised[r][1].type = "ValidationError"


\* The logger calls made by bedrock_client for request r.
AdapterLog(r) ==
    SelectSeq(log[r], LAMBDA entry : entry.logger = "bedrock_client")

\* Entry i of the calls is the one for the result of call i of
\* process_request.
EntryOfResult(calls, r, i) ==
    IF adapterResults[r][i].value.success
    THEN calls[i] = LogEntry("INFO", "bedrock_client",
                             <<LogBedrockSucceeded>>)
    ELSE calls[i] = LogEntry("ERROR", "bedrock_client",
                             <<LogBedrockFailed,
                               adapterResults[r][i].value.error>>)

\* C25 as stated: for every call of process_request one entry is emitted:
\* the info entry of the success or the error entry of the failure.
C25_OneEntryEmittedPerCall ==
    \A r \in Requests :
        pc[r] = "done" =>
            /\ Len(Emitted(settings, AdapterLog(r))) = Len(adapterResults[r])
            /\ \A i \in 1..Len(adapterResults[r]) :
                   EntryOfResult(Emitted(settings, AdapterLog(r)), r, i)

\* C25 amended: process_request calls the logger once per call,
\* logger.info for a success and logger.error for a failure; the entry is
\* emitted when the configured log level admits it, so under the levels
\* DEBUG and INFO every call emits one entry and under ERROR only the
\* failures do.
C25_OneLoggerCallPerCall ==
    \A r \in Requests :
        pc[r] = "done" =>
            /\ Len(AdapterLog(r)) = Len(adapterResults[r])
            /\ \A i \in 1..Len(adapterResults[r]) :
                   EntryOfResult(AdapterLog(r), r, i)
            /\ upper(settings.log_level) \in {LevelDebug, LevelInfo} =>
                   Emitted(settings, AdapterLog(r)) = AdapterLog(r)
            /\ upper(settings.log_level) = LevelError =>
                   Emitted(settings, AdapterLog(r)) =
                       SelectSeq(AdapterLog(r),
                                 LAMBDA entry : entry.level = "ERROR")

\* C25 witness: under LOG_LEVEL=error a call of process_request returned
\* a success; the logger was called once and nothing was emitted.
C25_Witness ==
    \E r \in Requests :
        /\ pc[r] = "done"
        /\ Len(adapterResults[r]) = 1
        /\ adapterResults[r][1].value.success
        /\ Len(AdapterLog(r)) = 1
        /\ settings.log_level = LogLevelErrorLowerCase
        /\ Emitted(settings, AdapterLog(r)) = <<>>


\* A str without leading and trailing whitespace.
Trimmed(s) ==
    s = <<>> \/ (s[1].c \notin Whitespace /\ s[Len(s)].c \notin Whitespace)

\* C26: the prompt of a request is built from the submitted task and
\* content without their leading and trailing whitespace: it is that
\* content alone exactly when that task is "gtd-clarification" (so for
\* "  gtd-clarification  ", and not for "GTD-Clarification"), otherwise
\* the template around that task and that content; the fields process()
\* works on have no leading or trailing whitespace.
C26_HandlerUsesTrimmedFields ==
    \A r \in Requests :
        AdapterCalled(r) =>
            /\ validated[r].task = strip(request[r].task.val)
            /\ validated[r].content = strip(request[r].content.val)
            /\ Trimmed(validated[r].task)
            /\ Trimmed(validated[r].content)
            /\ strip(request[r].task.val) = GTD_CLARIFICATION =>
                   adapterCalls[r][1] = strip(request[r].content.val)
            /\ strip(request[r].task.val) # GTD_CLARIFICATION =>
                   adapterCalls[r][1] =
                       CatAll(<<TemplateTask, strip(request[r].task.val),
                                TemplateContent,
                                strip(request[r].content.val),
                                TemplateTail>>)
            /\ request[r].task.val = StrGtdPadded =>
                   adapterCalls[r][1] = strip(request[r].content.val)
            /\ request[r].task.val = StrGtdUpper =>
                   /\ startswith(adapterCalls[r][1],
                                 Cat(TemplateTask, StrGtdUpper))
                   /\ adapterCalls[r][1] # strip(request[r].content.val)

\* C26 witness: the padded task "  gtd-clarification  " was accepted and
\* its content was sent to the adapter as the prompt.
C26_Witness ==
    \E r \in Requests :
        /\ AdapterCalled(r)
        /\ request[r].task.val = StrGtdPadded
        /\ request[r].task.val # GTD_CLARIFICATION
        /\ adapterCalls[r] = <<StrCleanInbox>>


\* C27: for every HTTPException raised in the body of process(), the 415
\* of the Content-Type check and the 503 of an adapter failure, the one
\* response of the request has the status code of the exception and the
\* body {"error": {type "http_error", message "HTTP <code>", details the
\* detail of the exception}}; it is not a 200 response.
C27_HttpExceptionPassesThrough ==
    \A r \in Requests :
        \A i \in 1..Len(raised[r]) :
            (pc[r] = "done" /\ raised[r][i].type = "HTTPException") =>
                /\ raised[r][i].status_code \in {415, 503}
                /\ Len(responses[r]) = 1
                /\ responses[r][1].status_code = raised[r][i].status_code
                /\ responses[r][1].status_code # 200
                /\ DOMAIN responses[r][1].content = {"error"}
                /\ responses[r][1].content.error.type = "http_error"
                /\ responses[r][1].content.error.message =
                       Cat(S(<<"H", "T", "T", "P", " ">>),
                           IntToStr(raised[r][i].status_code))
                /\ responses[r][1].content.error.details =
                       raised[r][i].detail

\* C27 witness: the Content-Type check raised the 415 and the request
\* was answered 415 with the http_error body.
C27_Witness ==
    \E r \in Requests :
        /\ pc[r] = "done"
        /\ raised[r] # <<>>
        /\ raised[r][1].type = "HTTPException"
        /\ raised[r][1].status_code = 415
        /\ responses[r][1].status_code = 415
        /\ responses[r][1].content.error.type = "http_error"


\* C28: settings and the adapter are not written after startup; the model
\* id of the adapter is the one of settings, that of BEDROCK_MODEL_ID or
\* the default; every result of the adapter, success or failure, carries
\* it, and every 200 response of /process reports it, with status
\* "success" and with status "error".
C28_ModelIdConsistent ==
    /\ [][UNCHANGED <<settings, bedrock_client>>]_vars
    /\ [](/\ bedrock_client.model_id = settings.bedrock_model_id
          /\ FromEnvironment(startup.env, field_bedrock_model_id,
                             bedrock_client.model_id, DefaultModelId)
          /\ \A r \in Requests :
                 /\ \A i \in 1..Len(adapterResults[r]) :
                        adapterResults[r][i].value.model
                            = bedrock_client.model_id
                 /\ \A i \in 1..Len(converseCalls[r]) :
                        converseCalls[r][i].modelId = bedrock_client.model_id
                 /\ \A i \in 1..Len(responses[r]) :
                        responses[r][i].status_code = 200 =>
                            responses[r][i].content.metadata.model
                                = bedrock_client.model_id)

\* C28 witness: a service started with BEDROCK_MODEL_ID=m1 answered 200
\* with status "error" and model "m1" after the adapter had returned a
\* success carrying "m1".
C28_Witness ==
    \E r \in Requests :
        /\ Answered(r)
        /\ settings.bedrock_model_id = ModelM1
        /\ adapterResults[r] # <<>>
        /\ adapterResults[r][1].value.success
        /\ adapterResults[r][1].value.model = ModelM1
        /\ responses[r][1].status_code = 200
        /\ responses[r][1].content.status = "error"
        /\ responses[r][1].content.metadata.model = ModelM1


\* C29: a request is never sent more than one response, a request that
\* is done has been sent one, and, the provider call returning or
\* raising, every submitted request is eventually done with its one
\* response.
C29_ExactlyOneResponse ==
    \A r \in Requests :
        /\ [](Len(responses[r]) <= 1)
        /\ [](pc[r] = "done" => Len(responses[r]) = 1)
        /\ (pc[r] = "submitted") ~>
               (pc[r] = "done" /\ Len(responses[r]) = 1)

\* C29 witness: the provider call of a request has raised and the request
\* is done with one response.
C29_Witness ==
    \E r \in Requests :
        /\ pc[r] = "done"
        /\ Len(converseResults[r]) = 1
        /\ converseResults[r][1].kind = "raise"
        /\ Len(responses[r]) = 1


\* C30: in every 200 response of POST /process a status "success" comes
\* with tokens_used of at least 1 and a status "error" with tokens_used
\* of 0, so that tokens_used is 0 exactly when the status is "error".
C30_StatusAgreesWithTokens ==
    \A r \in Requests :
        \A i \in 1..Len(responses[r]) :
            responses[r][i].status_code = 200 =>
                /\ responses[r][i].content.status = "success" =>
                       responses[r][i].content.metadata.tokens_used >= 1
                /\ responses[r][i].content.status = "error" =>
                       responses[r][i].content.metadata.tokens_used = 0
                /\ responses[r][i].content.metadata.tokens_used = 0 <=>
                       responses[r][i].content.status = "error"

\* C30 witness: the provider returned a text of no words, and the request
\* was answered 200 with status "success", the empty result, and the
\* words of its content as tokens_used.
C30_Witness ==
    \E r \in Requests :
        /\ Answered(r)
        /\ responses[r][1].status_code = 200
        /\ responses[r][1].content.status = "success"
        /\ WordCount(responses[r][1].content.result) = 0
        /\ responses[r][1].content.metadata.tokens_used
               = WordCount(validated[r].content)
        /\ responses[r][1].content.metadata.tokens_used >= 1

====
